---- MODULE Spec2Model ----
(***************************************************************************)
(* Record / persist / replay engine of                                     *)
(* backend/ui_testing_agent/core/browser_use_replay.py.                    *)
(*                                                                         *)
(* The specifications share the state:                                     *)
(*   SpecPersist   RecordedSession.save followed by RecordedSession.load   *)
(*   SpecReplay    BrowserUseReplayer.replay, one step per await point     *)
(*   SpecReplayOrder   the same runs, read through their history           *)
(*   SpecReplayFair    the same steps, each awaited call ending            *)
(*   SpecReplayCancel  the same steps, and the caller's cancellation       *)
(*   SpecReplayCallbacks  the same steps, with callbacks that may raise    *)
(*   SpecRecorder  BrowserUseRecorder: attach, detach, event handlers,     *)
(*                 interleaved at every statement of _record               *)
(*   SpecMatcher   ElementMatcher.find_match, one step per engine call,    *)
(*                 on a live page that another task may change             *)
(*   SpecPair      two replay() calls on one session, interleaved          *)
(*   SpecStream    main.stream_replay: event_generator, its replay task    *)
(*                 and the callbacks scheduled on the event loop           *)
(*   SpecStreamFair    the same, the event loop running what is ready      *)
(*                                                                         *)
(* Python values: an Optional[str] that is None is the string None, an     *)
(* Optional number that is None is NoneNum (every real number of the model *)
(* is >= 0), an Optional[ElementFingerprint] that is None is               *)
(* NoFingerprint.  Durations are in units of 1/Sec second.                 *)
(***************************************************************************)
EXTENDS Integers, Sequences, FiniteSets, TLC

VARIABLES
    session,          \* the RecordedSession given to save() / replay()
    twin,             \* a second session, equal to session but for sensitive text
    disk,             \* JSON document written by session.save(), or NoFile
    twinDisk,         \* JSON document written by twin.save(), or NoFile
    loaded,           \* RecordedSession returned by load(), or NoSession
    stop_on_failure,  \* replay() argument
    sensitive_data,   \* replay() argument (after `sensitive_data or {}`)
    callbacks,        \* TRUE iff on_step_start / on_step_complete are set
    pc,               \* position of the replay coroutine
    idx,              \* 1-based position of `action` in session.actions
    attempt,          \* _find_element: loop variable `attempt`
    retry_delay,      \* _find_element: local `retry_delay`
    node,             \* node resolved for the current action, or None
    exc,              \* exception in flight out of _execute_action, or None
    succeeded,        \* replay: local `succeeded`
    failed,           \* replay: local `failed`
    failed_steps,     \* replay: local `failed_steps`
    errors,           \* replay: local `errors`
    result,           \* the ReplayResult returned, or NoResult
    log,              \* callbacks made and commands dispatched, whole run
    trace,            \* engine calls and sleeps of the current action
    raised,           \* indices of the actions whose _execute_action raised
    recorder,         \* the BrowserUseRecorder object's attributes
    heap,             \* the RecordedSession objects attach() has created
    subscriptions,    \* times each recorder handler is subscribed to the bus
    events,           \* the events the bus has delivered, in order
    invocations,      \* the handler calls made by the bus, in call order
    lock,             \* the handler call holding recorder._lock, or 0
    api,              \* the latest attach() or detach() call and its outcome
    returned,         \* the sessions detach() has returned, as returned
    fingerprint,      \* find_match: the fingerprint looked up
    live,             \* find_match: the live session, or NoLive
    finds,            \* what the find_match calls made have returned
    matching,         \* the find_match call in progress, or NoCall
    changes,          \* times another task has changed the live page
    runs,             \* two replay() calls on one session: position, history
    frames,           \* the locals succeeded, failed, ... of each call
    overlap,          \* TRUE once the two calls have run side by side
    gen,              \* stream_replay: position of event_generator
    pumped,           \* callbacks whose scheduled put_nowait has run
    queue,            \* stream_replay: the items of progress_events
    sse,              \* the events event_generator has yielded, in order
    keepalives        \* the keepalive events yielded, counted apart

persistVars == <<session, twin, disk, twinDisk, loaded>>
replayVars  == <<stop_on_failure, sensitive_data, callbacks, pc, idx, attempt,
                 retry_delay, node, exc, succeeded, failed, failed_steps,
                 errors, result, log, trace, raised>>
vars == <<session, twin, disk, twinDisk, loaded, stop_on_failure,
          sensitive_data, callbacks, pc, idx, attempt, retry_delay, node, exc,
          succeeded, failed, failed_steps, errors, result, log, trace, raised,
          recorder, heap, subscriptions, events, invocations, lock, api,
          returned, fingerprint, live, finds, matching, changes, runs,
          frames, overlap, gen, pumped, queue, sse, keepalives>>
recorderVars == <<recorder, heap, subscriptions, events, invocations, lock,
                  api, returned>>
matcherVars == <<fingerprint, live, finds, matching, changes>>
pairVars == <<runs, frames, overlap>>
streamVars == <<gen, pumped, queue, sse, keepalives>>
\* the state outside save/load and replay
otherVars == <<recorderVars, matcherVars, pairVars, streamVars>>
\* the state outside the recorder
outsideRecorder ==
    <<persistVars, replayVars, matcherVars, pairVars, streamVars>>
\* the state outside the matcher
outsideMatcher ==
    <<persistVars, replayVars, recorderVars, pairVars, streamVars>>
\* the state outside the two interleaved replay() calls
outsidePair ==
    <<persistVars, replayVars, recorderVars, matcherVars, streamVars>>

----------------------------------------------------------------------------
(* Bounds of the model *)

\* longest session replayed
MaxActions == 3
\* longest session saved and loaded
MaxSaved == 2
\* events events on the recorded session's bus
MaxEvents == 2
\* attach() and detach() calls made on one recorder
MaxCalls == 4
\* handler calls in flight at one time
MaxInFlight == 2
\* find_match calls made on one live page
MaxFinds == 2
\* times the live page changes under the matcher
MaxChanges == 2
\* longest session replayed by two calls at once
MaxShared == 2
\* longest session replayed by the streaming endpoint
MaxStreamed == 2
\* keepalive events counted on one stream
MaxKeepalives == 2

----------------------------------------------------------------------------
(* Python values *)

None == "None"
NoneNum == 0 - 1
NoFingerprint == [is_none |-> TRUE]
NoFile == [absent |-> TRUE]
NoSession == [no_session |-> TRUE]
NoResult == [no_result |-> TRUE]
NoLive == [no_live |-> TRUE]
NoCall == [no_call |-> TRUE]

\* units per second: 1.0 s, 1.5 s, 2.25 s, 3.375 s and 5.0 s are whole
Sec == 16

\* the redaction marker written by save() and tested by _execute_action
Marker == "[SENSITIVE]"

\* ActionType: member name -> value
ActionTypeValue ==
    [NAVIGATE |-> "navigate", CLICK |-> "click", TYPE |-> "type",
     SCROLL |-> "scroll", SEND_KEYS |-> "send_keys", GO_BACK |-> "go_back",
     GO_FORWARD |-> "go_forward", REFRESH |-> "refresh", WAIT |-> "wait",
     UPLOAD_FILE |-> "upload_file", SELECT_DROPDOWN |-> "select_dropdown"]

ActionTypes == DOMAIN ActionTypeValue

\* ActionType(value): the member with that value
ActionType(value) == CHOOSE t \in ActionTypes : ActionTypeValue[t] = value

\* ElementFingerprint(): every field at its default
ElementFingerprint ==
    [css_selector |-> None, xpath |-> None, stable_hash |-> NoneNum,
     backend_node_id |-> NoneNum, id |-> None, data_testid |-> None,
     aria_label |-> None, name |-> None, placeholder |-> None, href |-> None,
     role |-> None, tag_name |-> None, text_content |-> None,
     classes |-> <<>>, x |-> NoneNum, y |-> NoneNum, width |-> NoneNum,
     height |-> NoneNum, recorded_index |-> NoneNum]

\* RecordedAction(action_type, timestamp): every other field at its default
RecordedAction(action_type, timestamp) ==
    [action_type |-> action_type, timestamp |-> timestamp, step_number |-> 0,
     element |-> NoFingerprint, url |-> None, text |-> None,
     is_sensitive |-> FALSE, clear_before_type |-> TRUE, direction |-> None,
     scroll_amount |-> NoneNum, keys |-> None, wait_seconds |-> NoneNum,
     file_path |-> None, dropdown_option |-> None, new_tab |-> FALSE]

\* RecordedSession(...) with the given actions
RecordedSession(session_id, version, actions) ==
    [session_id |-> session_id, task |-> "task", initial_url |-> "http://a",
     recorded_at |-> "t0", browser_use_version |-> version,
     actions |-> actions]

----------------------------------------------------------------------------
(* JSON values, as json.dump writes them and json.load reads them *)

JNull == [t |-> "null"]
JStr(v) == IF v = None THEN JNull ELSE [t |-> "string", v |-> v]
JNum(v) == IF v = NoneNum THEN JNull ELSE [t |-> "number", v |-> v]
JBool(v) == [t |-> "bool", v |-> v]
JStrList(s) == [t |-> "array", v |-> [k \in DOMAIN s |-> JStr(s[k])]]
JObject(o) == [t |-> "object", v |-> o]

PyStr(j) == IF j = JNull THEN None ELSE j.v
PyNum(j) == IF j = JNull THEN NoneNum ELSE j.v
PyBool(j) == j.v
PyStrList(j) == [k \in DOMAIN j.v |-> PyStr(j.v[k])]

\* bool(x) of a value read from JSON: null and the empty object are falsy
Truthy(j) ==
    CASE j.t = "null" -> FALSE
      [] j.t = "object" -> DOMAIN j.v # {}
      [] j.t = "array" -> DOMAIN j.v # {}
      [] j.t = "string" -> j.v # ""
      [] j.t = "number" -> j.v # 0
      [] j.t = "bool" -> j.v

\* d.get(key, default) on a JSON object, default given as a JSON value
Get(d, key, default) == IF key \in DOMAIN d THEN d[key] ELSE default

----------------------------------------------------------------------------
(* RecordedSession.save *)

\* dataclasses.asdict(element)
AsDict(e) ==
    [css_selector |-> JStr(e.css_selector), xpath |-> JStr(e.xpath),
     stable_hash |-> JNum(e.stable_hash),
     backend_node_id |-> JNum(e.backend_node_id), id |-> JStr(e.id),
     data_testid |-> JStr(e.data_testid), aria_label |-> JStr(e.aria_label),
     name |-> JStr(e.name), placeholder |-> JStr(e.placeholder),
     href |-> JStr(e.href), role |-> JStr(e.role),
     tag_name |-> JStr(e.tag_name), text_content |-> JStr(e.text_content),
     classes |-> JStrList(e.classes), x |-> JNum(e.x), y |-> JNum(e.y),
     width |-> JNum(e.width), height |-> JNum(e.height),
     recorded_index |-> JNum(e.recorded_index)]

\* a plausible slip: the stored text is written whatever is_sensitive says
SavedTextUnredacted(a) == a.text

\* "text": "[SENSITIVE]" if a.is_sensitive else a.text
SavedText(a) == IF a.is_sensitive THEN Marker ELSE a.text

\* "element": asdict(a.element) if a.element else None
\* (a dataclass instance is always truthy)
SavedElement(a) ==
    IF a.element # NoFingerprint THEN JObject(AsDict(a.element)) ELSE JNull

\* one entry of data["actions"]
SaveAction(a) ==
    [action_type |-> JStr(ActionTypeValue[a.action_type]),
     timestamp |-> JStr(a.timestamp),
     step_number |-> JNum(a.step_number),
     element |-> SavedElement(a),
     url |-> JStr(a.url),
     text |-> JStr(SavedText(a)),
     is_sensitive |-> JBool(a.is_sensitive),
     clear_before_type |-> JBool(a.clear_before_type),
     direction |-> JStr(a.direction),
     scroll_amount |-> JNum(a.scroll_amount),
     keys |-> JStr(a.keys),
     wait_seconds |-> JNum(a.wait_seconds),
     file_path |-> JStr(a.file_path),
     dropdown_option |-> JStr(a.dropdown_option),
     new_tab |-> JBool(a.new_tab)]

\* the document save() dumps
SaveSession(s) ==
    [session_id |-> JStr(s.session_id), task |-> JStr(s.task),
     initial_url |-> JStr(s.initial_url), recorded_at |-> JStr(s.recorded_at),
     browser_use_version |-> JStr(s.browser_use_version),
     actions |-> [k \in DOMAIN s.actions |-> SaveAction(s.actions[k])]]

----------------------------------------------------------------------------
(* RecordedSession.load *)

\* ElementFingerprint(css_selector=e.get("css_selector"), ...)
LoadFingerprint(e) ==
    [css_selector |-> PyStr(Get(e, "css_selector", JNull)),
     xpath |-> PyStr(Get(e, "xpath", JNull)),
     stable_hash |-> PyNum(Get(e, "stable_hash", JNull)),
     backend_node_id |-> PyNum(Get(e, "backend_node_id", JNull)),
     id |-> PyStr(Get(e, "id", JNull)),
     data_testid |-> PyStr(Get(e, "data_testid", JNull)),
     aria_label |-> PyStr(Get(e, "aria_label", JNull)),
     name |-> PyStr(Get(e, "name", JNull)),
     placeholder |-> PyStr(Get(e, "placeholder", JNull)),
     href |-> PyStr(Get(e, "href", JNull)),
     role |-> PyStr(Get(e, "role", JNull)),
     tag_name |-> PyStr(Get(e, "tag_name", JNull)),
     text_content |-> PyStr(Get(e, "text_content", JNull)),
     classes |-> PyStrList(Get(e, "classes", JStrList(<<>>))),
     x |-> PyNum(Get(e, "x", JNull)),
     y |-> PyNum(Get(e, "y", JNull)),
     width |-> PyNum(Get(e, "width", JNull)),
     height |-> PyNum(Get(e, "height", JNull)),
     recorded_index |-> PyNum(Get(e, "recorded_index", JNull))]

\* a plausible slip: a fingerprint with no populated signal is taken for None
LoadElementDropEmpty(a) ==
    IF Truthy(Get(a, "element", JNull))
       /\ LoadFingerprint(a["element"].v) # ElementFingerprint
    THEN LoadFingerprint(a["element"].v)
    ELSE NoFingerprint

\* element = None; if a.get("element"): element = ElementFingerprint(...)
LoadElement(a) ==
    IF Truthy(Get(a, "element", JNull))
    THEN LoadFingerprint(a["element"].v)
    ELSE NoFingerprint

\* RecordedAction(action_type=ActionType(a["action_type"]), ...)
LoadAction(a) ==
    [action_type |-> ActionType(PyStr(a["action_type"])),
     timestamp |-> PyStr(a["timestamp"]),
     step_number |-> PyNum(Get(a, "step_number", JNum(0))),
     element |-> LoadElement(a),
     url |-> PyStr(Get(a, "url", JNull)),
     text |-> PyStr(Get(a, "text", JNull)),
     is_sensitive |-> PyBool(Get(a, "is_sensitive", JBool(FALSE))),
     clear_before_type |-> PyBool(Get(a, "clear_before_type", JBool(TRUE))),
     direction |-> PyStr(Get(a, "direction", JNull)),
     scroll_amount |-> PyNum(Get(a, "scroll_amount", JNull)),
     keys |-> PyStr(Get(a, "keys", JNull)),
     wait_seconds |-> PyNum(Get(a, "wait_seconds", JNull)),
     file_path |-> PyStr(Get(a, "file_path", JNull)),
     dropdown_option |-> PyStr(Get(a, "dropdown_option", JNull)),
     new_tab |-> PyBool(Get(a, "new_tab", JBool(FALSE)))]

\* the RecordedSession load() builds from the document
LoadSession(data) ==
    [session_id |-> PyStr(data["session_id"]),
     task |-> PyStr(data["task"]),
     initial_url |-> PyStr(data["initial_url"]),
     recorded_at |-> PyStr(data["recorded_at"]),
     browser_use_version |-> PyStr(Get(data, "browser_use_version", JStr(""))),
     actions |-> [k \in DOMAIN Get(data, "actions", <<>>) |->
                     LoadAction(data["actions"][k])]]

----------------------------------------------------------------------------
(* Sessions saved and loaded *)

\* a fingerprint with every signal populated (0 and "" among the values)
FpFull ==
    [css_selector |-> "#login", xpath |-> "html/body/input",
     stable_hash |-> 7, backend_node_id |-> 12, id |-> "uid",
     data_testid |-> "login-field", aria_label |-> "", name |-> "user",
     placeholder |-> "Name", href |-> None, role |-> "textbox",
     tag_name |-> "input", text_content |-> "User name",
     classes |-> <<"field", "wide">>, x |-> 10, y |-> 0, width |-> 4,
     height |-> 2, recorded_index |-> 0]

\* the texts a sensitive field may hold in memory
SecretTexts == {"S3cr3t!", "hunter2"}

PersistActions ==
    LET A(t) == RecordedAction(t, "t1") IN
    { [A("NAVIGATE") EXCEPT !.url = "http://a", !.new_tab = TRUE],
      [A("CLICK") EXCEPT !.element = FpFull],
      [A("CLICK") EXCEPT !.element = ElementFingerprint],
      A("CLICK"),
      [A("TYPE") EXCEPT !.element = FpFull, !.text = "hello",
                        !.clear_before_type = FALSE],
      [A("TYPE") EXCEPT !.element = FpFull, !.text = "S3cr3t!",
                        !.is_sensitive = TRUE],
      [A("TYPE") EXCEPT !.element = ElementFingerprint, !.is_sensitive = TRUE],
      [A("SCROLL") EXCEPT !.direction = "down", !.scroll_amount = 0],
      [A("WAIT") EXCEPT !.wait_seconds = 0],
      [A("SEND_KEYS") EXCEPT !.keys = ""],
      [A("UPLOAD_FILE") EXCEPT !.element = FpFull, !.file_path = "f.txt"],
      [A("SELECT_DROPDOWN") EXCEPT !.element = FpFull,
                                   !.dropdown_option = "opt"] }

\* sequences over S of length 0..n
SeqUpTo(S, n) == UNION {[1..m -> S] : m \in 0..n}

\* the recorder numbers the actions base+1, base+2, ...
Numbered(actions, base) ==
    [k \in DOMAIN actions |-> [actions[k] EXCEPT !.step_number = base + k]]

\* s with the text of every sensitive action replaced by text
WithSecret(s, text) ==
    [s EXCEPT !.actions =
        [k \in DOMAIN s.actions |->
            IF s.actions[k].is_sensitive
            THEN [s.actions[k] EXCEPT !.text = text]
            ELSE s.actions[k]]]

\* BrowserUseRecorder.__init__; `session` is the RecordedSession object held
\* in _session, named by its position in heap, 0 for None
NewRecorder ==
    [session |-> 0, browser_session |-> None, is_recording |-> FALSE,
     step_counter |-> 0]

\* the n-th call made on the recorder and what it raised
Call(n, op, error) == [n |-> n, op |-> op, raised |-> error]

\* no recorder exists while a session is saved, loaded or replayed
RecorderIdle ==
    /\ recorder = NewRecorder
    /\ heap = <<>>
    /\ subscriptions = 0
    /\ events = <<>>
    /\ invocations = <<>>
    /\ lock = 0
    /\ api = Call(0, None, None)
    /\ returned = <<>>

\* no fingerprint is looked up outside the matcher's own runs
MatcherIdle ==
    /\ fingerprint = NoFingerprint
    /\ live = NoLive
    /\ finds = <<>>
    /\ matching = NoCall
    /\ changes = 0

\* no second replay() call runs
PairIdle ==
    /\ runs = <<>>
    /\ frames = <<>>
    /\ overlap = FALSE

\* no replay is being streamed
StreamIdle ==
    /\ gen = "idle"
    /\ pumped = 0
    /\ queue = <<>>
    /\ sse = <<>>
    /\ keepalives = 0

\* replay is idle while a session is saved and loaded
ReplayIdle ==
    /\ stop_on_failure = FALSE
    /\ sensitive_data = <<>>
    /\ callbacks = FALSE
    /\ pc = "idle"
    /\ idx = 0
    /\ attempt = 0
    /\ retry_delay = 0
    /\ node = None
    /\ exc = None
    /\ succeeded = 0
    /\ failed = 0
    /\ failed_steps = <<>>
    /\ errors = <<>>
    /\ result = NoResult
    /\ log = <<>>
    /\ trace = <<>>
    /\ raised = {}

InitPersist ==
    /\ \E actions \in SeqUpTo(PersistActions, MaxSaved),
          version \in {"", "0.11.2"} :
          session = RecordedSession("s1", version, Numbered(actions, 0))
    /\ \E text \in SecretTexts : twin = WithSecret(session, text)
    /\ disk = NoFile
    /\ twinDisk = NoFile
    /\ loaded = NoSession
    /\ ReplayIdle
    /\ RecorderIdle
    /\ MatcherIdle
    /\ PairIdle
    /\ StreamIdle

\* session.save(path) and twin.save(path2)
Save ==
    /\ pc = "idle"
    /\ disk = NoFile
    /\ disk' = SaveSession(session)
    /\ twinDisk' = SaveSession(twin)
    /\ UNCHANGED <<session, twin, loaded>>
    /\ UNCHANGED replayVars
    /\ UNCHANGED otherVars

\* RecordedSession.load(path)
Load ==
    /\ pc = "idle"
    /\ disk # NoFile
    /\ loaded = NoSession
    /\ loaded' = LoadSession(disk)
    /\ UNCHANGED <<session, twin, disk, twinDisk>>
    /\ UNCHANGED replayVars
    /\ UNCHANGED otherVars

NextPersist == Save \/ Load

SpecPersist == InitPersist /\ [][NextPersist]_vars

----------------------------------------------------------------------------
(* Claims about save and load *)

\* C7: save() writes the marker "[SENSITIVE]" as the text of every action
\* with is_sensitive = true, so two sessions that differ only in the real
\* text of their sensitive actions are persisted as the same document.
C7_SaveRedacts ==
    disk # NoFile =>
        /\ \A k \in DOMAIN session.actions :
              session.actions[k].is_sensitive =>
                  disk.actions[k].text = JStr(Marker)
        /\ twinDisk = disk

\* two sessions with different real secrets have been saved
C7_Witness ==
    /\ disk # NoFile
    /\ twin # session
    /\ \E k \in DOMAIN session.actions :
          /\ session.actions[k].is_sensitive
          /\ session.actions[k].text \in SecretTexts
          /\ twin.actions[k].text \in SecretTexts

\* C8: load(save(s)) equals s in the session fields and, action by action in
\* the same order, in every field (an empty fingerprint stays a fingerprint,
\* no fingerprint stays none), except that the text of each sensitive action
\* is the marker.
C8_RoundTrip ==
    loaded # NoSession =>
        /\ Len(loaded.actions) = Len(session.actions)
        /\ loaded = WithSecret(session, Marker)

\* a session holding an empty fingerprint and a real secret was loaded back
C8_Witness ==
    /\ loaded # NoSession
    /\ \E k \in DOMAIN session.actions :
          session.actions[k].element = ElementFingerprint
    /\ \E k \in DOMAIN session.actions :
          /\ session.actions[k].is_sensitive
          /\ session.actions[k].text \in SecretTexts

----------------------------------------------------------------------------
(* BrowserUseReplayer: pure parts of _execute_action and _find_element *)

\* _find_element(max_retries=5)
max_retries == 5

\* retry_delay = 1.0 on entry to _find_element
InitialDelay == Sec

\* x or default, for an Optional[str]
OrStr(x, default) == IF x = None \/ x = "" THEN default ELSE x

\* x or default, for an Optional number
OrNum(x, default) == IF x = NoneNum \/ x = 0 THEN default ELSE x

Min(S) == CHOOSE m \in S : \A n \in S : m <= n

\* a plausible slip: keys are sent to the recorded element
ResolvingTypesAndKeys ==
    {"CLICK", "TYPE", "UPLOAD_FILE", "SELECT_DROPDOWN", "SEND_KEYS"}

\* the action types whose branch of _execute_action calls _find_element
\* without catching what it raises
ResolvingTypes == {"CLICK", "TYPE", "UPLOAD_FILE", "SELECT_DROPDOWN"}

\* a plausible slip: the literal keys are tried before the element's own
LookupKeysLiteralFirst(action) ==
    << "password", "secret",
       IF action.element # NoFingerprint THEN action.element.name ELSE None,
       IF action.element # NoFingerprint THEN action.element.id ELSE None >>

\* [action.element.name if action.element else None,
\*  action.element.id if action.element else None, "password", "secret"]
LookupKeys(action) ==
    << IF action.element # NoFingerprint THEN action.element.name ELSE None,
       IF action.element # NoFingerprint THEN action.element.id ELSE None,
       "password", "secret" >>

\* text = action.text; if action.is_sensitive and text == "[SENSITIVE]":
\*     for key in [...]: if key and key in sensitive_data: text = ...; break
TypedText(action, data) ==
    IF action.is_sensitive /\ action.text = Marker
    THEN LET keys == LookupKeys(action)
             hits == {k \in DOMAIN keys :
                         /\ keys[k] # None
                         /\ keys[k] # ""
                         /\ keys[k] \in DOMAIN data}
         IN  IF hits = {} THEN action.text ELSE data[keys[Min(hits)]]
    ELSE action.text

\* direction = action.direction or "down"; anything not a literal is "down"
ScrollDirection(action) ==
    LET direction == OrStr(action.direction, "down")
    IN  IF direction \in {"up", "down", "left", "right"}
        THEN direction ELSE "down"

\* the event _execute_action builds for `action` once `found` is resolved
BuildEvent(action, found, data) ==
    CASE action.action_type = "NAVIGATE" ->
            [kind |-> "navigate", url |-> OrStr(action.url, ""),
             new_tab |-> action.new_tab]
      [] action.action_type = "CLICK" ->
            [kind |-> "click", node |-> found]
      [] action.action_type = "TYPE" ->
            [kind |-> "type", node |-> found,
             text |-> OrStr(TypedText(action, data), ""),
             clear |-> action.clear_before_type,
             is_sensitive |-> action.is_sensitive]
      [] action.action_type = "SCROLL" ->
            [kind |-> "scroll", node |-> found,
             direction |-> ScrollDirection(action),
             amount |-> OrNum(action.scroll_amount, 300)]
      [] action.action_type = "SEND_KEYS" ->
            [kind |-> "send_keys", keys |-> OrStr(action.keys, "")]
      [] action.action_type = "GO_BACK" -> [kind |-> "go_back"]
      [] action.action_type = "GO_FORWARD" -> [kind |-> "go_forward"]
      [] action.action_type = "REFRESH" -> [kind |-> "refresh"]
      [] action.action_type = "WAIT" ->
            [kind |-> "wait", seconds |-> OrNum(action.wait_seconds, Sec)]
      [] action.action_type = "UPLOAD_FILE" ->
            [kind |-> "upload_file", node |-> found,
             file_path |-> OrStr(action.file_path, "")]
      [] action.action_type = "SELECT_DROPDOWN" ->
            [kind |-> "select_dropdown", node |-> found,
             text |-> OrStr(action.dropdown_option, "")]

\* a plausible slip: the delay doubles and is not capped
NextDelayDoubling(delay) == delay * 2

\* retry_delay = min(retry_delay * 1.5, 5.0)
NextDelay(delay) ==
    IF (delay * 3) \div 2 < 5 * Sec THEN (delay * 3) \div 2 ELSE 5 * Sec

\* a plausible slip: one attempt too few
MayRetryOneLess(n) == n < max_retries - 2

\* if attempt < max_retries - 1: sleep and go round again
MayRetry(n) == n < max_retries - 1

\* a plausible slip: the loop is left after any failure
BreaksAlways(stop) == TRUE

\* a plausible slip: the loop is never left early
BreaksNever(stop) == FALSE

\* if stop_on_failure: break
Breaks(stop) == stop

\* a plausible slip: success says that something succeeded
SuccessIfAny(n_failed, n_succeeded) == n_succeeded > 0

\* success = failed == 0
Success(n_failed, n_succeeded) == n_failed = 0

----------------------------------------------------------------------------
(* Sessions replayed, and the caller's arguments *)

FpIdOnly == [FpFull EXCEPT !.name = None]
FpPassword == [FpFull EXCEPT !.name = "password", !.id = None]
FpAnonymous == [FpFull EXCEPT !.name = "", !.id = None]

\* the actions of the long sessions
CoreActions ==
    LET A(t) == RecordedAction(t, "t1") IN
    { [A("NAVIGATE") EXCEPT !.url = "http://a"],
      [A("CLICK") EXCEPT !.element = FpFull],
      [A("TYPE") EXCEPT !.element = FpFull, !.text = Marker,
                        !.is_sensitive = TRUE] }

\* the actions of the one-action sessions: every action type, with and
\* without a fingerprint, with recorded values that are 0, "" or None
ReplayActions ==
    LET A(t) == RecordedAction(t, "t1") IN
    CoreActions \cup
    { A("NAVIGATE"),
      [A("NAVIGATE") EXCEPT !.url = "http://b", !.element = FpFull,
                            !.new_tab = TRUE],
      A("CLICK"),
      [A("CLICK") EXCEPT !.element = ElementFingerprint],
      [A("TYPE") EXCEPT !.element = FpFull, !.text = "hello",
                        !.clear_before_type = FALSE],
      [A("TYPE") EXCEPT !.element = FpFull, !.text = "S3cr3t!",
                        !.is_sensitive = TRUE],
      [A("TYPE") EXCEPT !.element = FpIdOnly, !.text = Marker,
                        !.is_sensitive = TRUE],
      [A("TYPE") EXCEPT !.element = FpPassword, !.text = Marker,
                        !.is_sensitive = TRUE],
      [A("TYPE") EXCEPT !.element = FpAnonymous, !.text = Marker,
                        !.is_sensitive = TRUE],
      [A("TYPE") EXCEPT !.text = Marker, !.is_sensitive = TRUE],
      [A("SCROLL") EXCEPT !.direction = "up", !.scroll_amount = 500],
      [A("SCROLL") EXCEPT !.element = FpFull, !.scroll_amount = 0],
      [A("SCROLL") EXCEPT !.element = FpFull, !.direction = "sideways",
                          !.scroll_amount = 120],
      [A("SEND_KEYS") EXCEPT !.keys = "Enter"],
      [A("SEND_KEYS") EXCEPT !.element = FpFull],
      A("GO_BACK"),
      [A("GO_FORWARD") EXCEPT !.element = FpFull],
      A("REFRESH"),
      [A("WAIT") EXCEPT !.wait_seconds = 2 * Sec],
      [A("WAIT") EXCEPT !.wait_seconds = 0, !.element = FpFull],
      A("WAIT"),
      [A("UPLOAD_FILE") EXCEPT !.element = FpFull, !.file_path = "f.txt"],
      A("UPLOAD_FILE"),
      [A("SELECT_DROPDOWN") EXCEPT !.element = FpFull,
                                   !.dropdown_option = "opt"],
      A("SELECT_DROPDOWN") }

\* the real values a caller may supply, by key
SecretOf ==
    [user |-> "S-user", uid |-> "S-uid", password |-> "S3cr3t!",
     secret |-> "S-secret"]

\* sensitive_data: any part of SecretOf, the empty dict included
SensitiveMaps == {[k \in K |-> SecretOf[k]] : K \in SUBSET DOMAIN SecretOf}

\* the nodes the live page may resolve a fingerprint to
LiveNodes == {"node-17"}

\* no file is written or read while a session is replayed
PersistIdle ==
    /\ twin = session
    /\ disk = NoFile
    /\ twinDisk = NoFile
    /\ loaded = NoSession

\* locals of replay() before the loop
ReplayStart ==
    /\ pc = IF Len(session.actions) = 0 THEN "return" ELSE "start"
    /\ idx = 0
    /\ attempt = 0
    /\ retry_delay = 0
    /\ node = None
    /\ exc = None
    /\ succeeded = 0
    /\ failed = 0
    /\ failed_steps = <<>>
    /\ errors = <<>>
    /\ result = NoResult
    /\ log = <<>>
    /\ trace = <<>>
    /\ raised = {}

InitReplay ==
    /\ \/ /\ \E actions \in SeqUpTo(CoreActions, MaxActions), base \in {0, 2} :
                session = RecordedSession("s1", "0.11.2",
                                          Numbered(actions, base))
          /\ sensitive_data \in {[k \in {} |-> ""], SecretOf}
          /\ callbacks = TRUE
       \/ /\ \E a \in ReplayActions, base \in {0, 2} :
                session = RecordedSession("s1", "0.11.2",
                                          Numbered(<<a>>, base))
          /\ sensitive_data \in SensitiveMaps
          /\ callbacks \in BOOLEAN
    /\ stop_on_failure \in BOOLEAN
    /\ PersistIdle
    /\ ReplayStart
    /\ RecorderIdle
    /\ MatcherIdle
    /\ PairIdle
    /\ StreamIdle

----------------------------------------------------------------------------
(* BrowserUseReplayer.replay, one action per await point *)

\* a plausible slip: the list is walked from its end
actionFromEnd == session.actions[Len(session.actions) + 1 - idx]

\* for action in session.actions: the action of the iteration under way
action == session.actions[idx]

\* what the run has done so far
Event(op, arg) == [op |-> op, idx |-> idx, arg |-> arg]
EventAt(op, k, arg) == [op |-> op, idx |-> k, arg |-> arg]

\* a plausible slip: the loop is left by a break only
AfterActionUnbounded(break) ==
    IF break THEN "return" ELSE "start"

\* the loop is over after the last action or after a break
AfterAction(break) ==
    IF break \/ idx = Len(session.actions) THEN "return" ELSE "start"

\* for action in session.actions: step = action.step_number;
\* on_step_start(step, action); then _execute_action up to its first await
StepStart ==
    /\ pc = "start"
    /\ idx < Len(session.actions)
    /\ idx' = idx + 1
    /\ LET a == session.actions[idx + 1]
           started == IF callbacks
                      THEN <<EventAt("on_step_start", idx + 1, a.step_number)>>
                      ELSE <<>>
       IN  /\ log' = log \o started
                         \o <<EventAt("execute", idx + 1, a.step_number)>>
           /\ IF \/ a.action_type \in ResolvingTypes
                 \/ a.action_type = "SCROLL" /\ a.element # NoFingerprint
              THEN IF a.element = NoFingerprint
                   THEN \* _find_element: raise ValueError("No element ...")
                        /\ pc' = "except"
                        /\ exc' = "No element fingerprint provided"
                        /\ raised' = raised \cup {idx + 1}
                   ELSE /\ pc' = "refresh"
                        /\ UNCHANGED <<exc, raised>>
              ELSE /\ pc' = "dispatch"
                   /\ UNCHANGED <<exc, raised>>
    /\ attempt' = 0
    /\ retry_delay' = InitialDelay
    /\ node' = None
    /\ trace' = <<>>
    /\ UNCHANGED <<succeeded, failed, failed_steps, errors, result>>
    /\ UNCHANGED <<stop_on_failure, sensitive_data, callbacks>>
    /\ UNCHANGED persistVars
    /\ UNCHANGED otherVars

\* an exception leaves _find_element: the scroll branch swallows it
\* (except Exception: pass) and dispatches with node = None, every other
\* branch lets it leave _execute_action
FindRaises(error) ==
    IF action.action_type = "SCROLL"
    THEN /\ pc' = "dispatch"
         /\ UNCHANGED <<exc, raised>>
    ELSE /\ pc' = "except"
         /\ exc' = error
         /\ raised' = raised \cup {idx}

\* await browser_session.get_browser_state_summary(cached=False) returns
RefreshReturns ==
    /\ pc = "refresh"
    /\ trace' = Append(trace, Event("refresh", "ok"))
    /\ pc' = "match"
    /\ UNCHANGED <<idx, attempt, retry_delay, node, exc, raised, log>>
    /\ UNCHANGED <<succeeded, failed, failed_steps, errors, result>>
    /\ UNCHANGED <<stop_on_failure, sensitive_data, callbacks>>
    /\ UNCHANGED persistVars
    /\ UNCHANGED otherVars

\* await browser_session.get_browser_state_summary(cached=False) raises
RefreshRaises ==
    /\ pc = "refresh"
    /\ trace' = Append(trace, Event("refresh", "raise"))
    /\ FindRaises("engine unreachable")
    /\ UNCHANGED <<idx, attempt, retry_delay, node, log>>
    /\ UNCHANGED <<succeeded, failed, failed_steps, errors, result>>
    /\ UNCHANGED <<stop_on_failure, sensitive_data, callbacks>>
    /\ UNCHANGED persistVars
    /\ UNCHANGED otherVars

\* await ElementMatcher.find_match(...) returns (idx, node)
MatchFound ==
    /\ pc = "match"
    /\ \E n \in LiveNodes : node' = n
    /\ trace' = Append(trace, Event("find_match", "found"))
    /\ pc' = "dispatch"
    /\ UNCHANGED <<idx, attempt, retry_delay, exc, raised, log>>
    /\ UNCHANGED <<succeeded, failed, failed_steps, errors, result>>
    /\ UNCHANGED <<stop_on_failure, sensitive_data, callbacks>>
    /\ UNCHANGED persistVars
    /\ UNCHANGED otherVars

\* await ElementMatcher.find_match(...) returns None: sleep next, or, after
\* the last attempt, raise ValueError("Could not find element matching ...")
MatchNotFound ==
    /\ pc = "match"
    /\ trace' = Append(trace, Event("find_match", "not found"))
    /\ IF MayRetry(attempt)
       THEN /\ pc' = "sleep"
            /\ UNCHANGED <<exc, raised>>
       ELSE FindRaises("Could not find element")
    /\ UNCHANGED <<idx, attempt, retry_delay, node, log>>
    /\ UNCHANGED <<succeeded, failed, failed_steps, errors, result>>
    /\ UNCHANGED <<stop_on_failure, sensitive_data, callbacks>>
    /\ UNCHANGED persistVars
    /\ UNCHANGED otherVars

\* await ElementMatcher.find_match(...) raises (the selector-map read of the
\* attribute strategy is outside every try block)
MatchRaises ==
    /\ pc = "match"
    /\ trace' = Append(trace, Event("find_match", "raise"))
    /\ FindRaises("selector map unreadable")
    /\ UNCHANGED <<idx, attempt, retry_delay, node, log>>
    /\ UNCHANGED <<succeeded, failed, failed_steps, errors, result>>
    /\ UNCHANGED <<stop_on_failure, sensitive_data, callbacks>>
    /\ UNCHANGED persistVars
    /\ UNCHANGED otherVars

\* a plausible slip: the DOM state is read once, before the loop
NextAttemptUnrefreshed == "match"

\* for attempt in range(max_retries): every attempt starts with
\* await browser_session.get_browser_state_summary(cached=False)
NextAttempt == "refresh"

\* await asyncio.sleep(retry_delay); retry_delay = min(retry_delay*1.5, 5.0);
\* next attempt
Sleep ==
    /\ pc = "sleep"
    /\ trace' = Append(trace, Event("sleep", retry_delay))
    /\ retry_delay' = NextDelay(retry_delay)
    /\ attempt' = attempt + 1
    /\ pc' = NextAttempt
    /\ UNCHANGED <<idx, node, exc, raised, log>>
    /\ UNCHANGED <<succeeded, failed, failed_steps, errors, result>>
    /\ UNCHANGED <<stop_on_failure, sensitive_data, callbacks>>
    /\ UNCHANGED persistVars
    /\ UNCHANGED otherVars

\* a plausible slip: the callback is made for the steps that succeed only
StepCompleteOnSuccess(success, error) ==
    IF callbacks /\ success
    THEN <<Event("on_step_complete", <<action.step_number, success, error>>)>>
    ELSE <<>>

\* if self.on_step_complete: self.on_step_complete(step, success, error)
StepComplete(success, error) ==
    IF callbacks
    THEN <<Event("on_step_complete", <<action.step_number, success, error>>)>>
    ELSE <<>>

\* a plausible slip: the resolved secret is stored back into the action
SessionAfterExecuteStoringText(s, k, data) ==
    [s EXCEPT !.actions[k].text = TypedText(s.actions[k], data)]

\* the session once _execute_action has built the command of action k: the
\* resolved text is the local `text`, no field of the action is assigned
SessionAfterExecute(s, k, data) == s

\* await event_bus.dispatch(event) returns: succeeded += 1;
\* on_step_complete(step, True, None)
DispatchReturns ==
    /\ pc = "dispatch"
    /\ succeeded' = succeeded + 1
    /\ log' = log
          \o <<Event("dispatch", BuildEvent(action, node, sensitive_data))>>
          \o StepComplete(TRUE, None)
    /\ pc' = AfterAction(FALSE)
    /\ session' = SessionAfterExecute(session, idx, sensitive_data)
    /\ UNCHANGED <<idx, attempt, retry_delay, node, exc, raised, trace>>
    /\ UNCHANGED <<failed, failed_steps, errors, result>>
    /\ UNCHANGED <<stop_on_failure, sensitive_data, callbacks>>
    /\ UNCHANGED <<twin, disk, twinDisk, loaded>>
    /\ UNCHANGED otherVars

\* await event_bus.dispatch(event) raises
DispatchRaises ==
    /\ pc = "dispatch"
    /\ log' = Append(log, Event("dispatch",
                                BuildEvent(action, node, sensitive_data)))
    /\ pc' = "except"
    /\ exc' = "dispatch failed"
    /\ raised' = raised \cup {idx}
    /\ session' = SessionAfterExecute(session, idx, sensitive_data)
    /\ UNCHANGED <<idx, attempt, retry_delay, node, trace>>
    /\ UNCHANGED <<succeeded, failed, failed_steps, errors, result>>
    /\ UNCHANGED <<stop_on_failure, sensitive_data, callbacks>>
    /\ UNCHANGED <<twin, disk, twinDisk, loaded>>
    /\ UNCHANGED otherVars

\* a plausible slip: the message names the list position, not the step
ErrorMessageByPosition(a, error) ==
    <<idx, ActionTypeValue[a.action_type], error>>

\* error_msg = f"Step {step} ({action.action_type.value}): {str(e)}"
ErrorMessage(a, error) ==
    <<a.step_number, ActionTypeValue[a.action_type], error>>

\* except Exception as e: failed += 1; failed_steps.append(step);
\* errors.append(...); on_step_complete(step, False, str(e));
\* if stop_on_failure: break
HandleFailure ==
    /\ pc = "except"
    /\ failed' = failed + 1
    /\ failed_steps' = Append(failed_steps, action.step_number)
    /\ errors' = Append(errors, ErrorMessage(action, exc))
    /\ log' = log \o StepComplete(FALSE, exc)
    /\ exc' = None
    /\ pc' = AfterAction(Breaks(stop_on_failure))
    /\ UNCHANGED <<idx, attempt, retry_delay, node, raised, trace>>
    /\ UNCHANGED <<succeeded, result>>
    /\ UNCHANGED <<stop_on_failure, sensitive_data, callbacks>>
    /\ UNCHANGED persistVars
    /\ UNCHANGED otherVars

\* success = failed == 0; return ReplayResult(...)
Return ==
    /\ pc = "return"
    /\ result' = [success |-> Success(failed, succeeded),
                  actions_total |-> Len(session.actions),
                  actions_succeeded |-> succeeded,
                  actions_failed |-> failed,
                  failed_steps |-> failed_steps,
                  errors |-> errors]
    /\ pc' = "done"
    /\ UNCHANGED <<idx, attempt, retry_delay, node, exc, raised, log, trace>>
    /\ UNCHANGED <<succeeded, failed, failed_steps, errors>>
    /\ UNCHANGED <<stop_on_failure, sensitive_data, callbacks>>
    /\ UNCHANGED persistVars
    /\ UNCHANGED otherVars

\* a plausible slip: CancelledError is caught like any other exception (it
\* derived from Exception before Python 3.8)
IsExceptionLegacy(error) == TRUE

\* `except Exception` catches the exception: asyncio.CancelledError derives
\* from BaseException, every other exception of the model from Exception
IsException(error) == error # "CancelledError"

\* the caller cancels the task while an engine call, a sleep or a dispatch
\* is awaited: CancelledError is raised at that await.  While find_match is
\* awaited for a fingerprint with an xpath, the await may be one of the try
\* block of _find_by_xpath (DOM.getSearchResults, DOM.describeNode,
\* get_selector_map): its finally block then awaits
\* DOM.discardSearchResults before the CancelledError goes on.  A cancel
\* during that last await leaves the finally block at once.
Cancel ==
    /\ pc \in {"refresh", "match", "sleep", "dispatch", "discard"}
    /\ log' = Append(log, Event("cancel", pc))
    /\ \/ /\ pc = "match"
          /\ action.element.xpath \notin {None, ""}
          /\ pc' = "discard"
          /\ UNCHANGED <<exc, raised>>
       \/ IF IsException("CancelledError")
          THEN IF pc = "dispatch"
               THEN /\ pc' = "except"
                    /\ exc' = "CancelledError"
                    /\ raised' = raised \cup {idx}
               ELSE FindRaises("CancelledError")
          ELSE /\ pc' = "cancelled"
               /\ exc' = "CancelledError"
               /\ UNCHANGED raised
    /\ UNCHANGED <<idx, attempt, retry_delay, node, trace>>
    /\ UNCHANGED <<succeeded, failed, failed_steps, errors, result>>
    /\ UNCHANGED <<stop_on_failure, sensitive_data, callbacks>>
    /\ UNCHANGED persistVars
    /\ UNCHANGED otherVars

\* finally: await DOM.discardSearchResults(...) returns, or raises and is
\* passed over (except Exception: pass): the CancelledError that entered the
\* finally block leaves _find_by_xpath, find_match and _find_element
DiscardEnds ==
    /\ pc = "discard"
    /\ \E how \in {"ok", "raise"} :
          trace' = Append(trace, Event("discard", how))
    /\ IF IsException("CancelledError")
       THEN FindRaises("CancelledError")
       ELSE /\ pc' = "cancelled"
            /\ exc' = "CancelledError"
            /\ UNCHANGED raised
    /\ UNCHANGED <<idx, attempt, retry_delay, node, log>>
    /\ UNCHANGED <<succeeded, failed, failed_steps, errors, result>>
    /\ UNCHANGED <<stop_on_failure, sensitive_data, callbacks>>
    /\ UNCHANGED persistVars
    /\ UNCHANGED otherVars

NextReplay ==
    \/ StepStart
    \/ RefreshReturns
    \/ RefreshRaises
    \/ MatchFound
    \/ MatchNotFound
    \/ MatchRaises
    \/ Sleep
    \/ DispatchReturns
    \/ DispatchRaises
    \/ HandleFailure
    \/ Return

SpecReplay == InitReplay /\ [][NextReplay]_vars

\* the same runs, explored for the properties of their history (log, trace)
SpecReplayOrder == InitReplay /\ [][NextReplay]_vars

\* the runs whose end is checked: the long sessions and every one-action
\* session, steps numbered from 1
InitReplayPlain ==
    /\ \/ /\ \E actions \in SeqUpTo(CoreActions, MaxActions) :
                session = RecordedSession("s1", "0.11.2",
                                          Numbered(actions, 0))
          /\ callbacks = TRUE
       \/ /\ \E a \in ReplayActions :
                session = RecordedSession("s1", "0.11.2", Numbered(<<a>>, 0))
          /\ callbacks \in BOOLEAN
    /\ sensitive_data = SecretOf
    /\ stop_on_failure \in BOOLEAN
    /\ PersistIdle
    /\ ReplayStart
    /\ RecorderIdle
    /\ MatcherIdle
    /\ PairIdle
    /\ StreamIdle

\* a run that its caller may cancel
NextReplayCancel ==
    \/ NextReplay
    \/ Cancel
    \/ DiscardEnds

\* the clean-up call of a cancelled xpath search returns or raises
SpecReplayCancel ==
    InitReplayPlain /\ [][NextReplayCancel]_vars /\ WF_vars(DiscardEnds)

\* every engine call, sleep and dispatch that is awaited returns or raises
SpecReplayFair ==
    InitReplayPlain /\ [][NextReplay]_vars /\ WF_vars(NextReplay)

\* what a callback that fails raises
CallbackError == "callback failed"

\* self.on_step_start(step, action) raises: the call is made before the try
\* block, the exception leaves replay()
StepStartRaises ==
    /\ pc = "start"
    /\ idx < Len(session.actions)
    /\ callbacks
    /\ idx' = idx + 1
    /\ log' = Append(log, EventAt("on_step_start", idx + 1,
                                  session.actions[idx + 1].step_number))
    /\ pc' = "propagated"
    /\ exc' = CallbackError
    /\ trace' = <<>>
    /\ UNCHANGED <<attempt, retry_delay, node, raised>>
    /\ UNCHANGED <<succeeded, failed, failed_steps, errors, result>>
    /\ UNCHANGED <<stop_on_failure, sensitive_data, callbacks>>
    /\ UNCHANGED persistVars
    /\ UNCHANGED otherVars

\* await event_bus.dispatch(event) returns: succeeded += 1; then
\* self.on_step_complete(step, True, None) raises inside the try block and
\* the except clause of the same action takes over
CompleteRaisesInTry ==
    /\ pc = "dispatch"
    /\ callbacks
    /\ succeeded' = succeeded + 1
    /\ log' = log
          \o <<Event("dispatch", BuildEvent(action, node, sensitive_data))>>
          \o StepComplete(TRUE, None)
    /\ pc' = "except"
    /\ exc' = CallbackError
    /\ session' = SessionAfterExecute(session, idx, sensitive_data)
    /\ UNCHANGED <<idx, attempt, retry_delay, node, raised, trace>>
    /\ UNCHANGED <<failed, failed_steps, errors, result>>
    /\ UNCHANGED <<stop_on_failure, sensitive_data, callbacks>>
    /\ UNCHANGED <<twin, disk, twinDisk, loaded>>
    /\ UNCHANGED otherVars

\* except Exception as e: failed += 1; failed_steps.append(step);
\* errors.append(...); then self.on_step_complete(step, False, str(e)) raises
\* inside the except clause: the exception leaves replay()
CompleteRaisesInExcept ==
    /\ pc = "except"
    /\ callbacks
    /\ failed' = failed + 1
    /\ failed_steps' = Append(failed_steps, action.step_number)
    /\ errors' = Append(errors, ErrorMessage(action, exc))
    /\ log' = log \o StepComplete(FALSE, exc)
    /\ exc' = CallbackError
    /\ pc' = "propagated"
    /\ UNCHANGED <<idx, attempt, retry_delay, node, raised, trace>>
    /\ UNCHANGED <<succeeded, result>>
    /\ UNCHANGED <<stop_on_failure, sensitive_data, callbacks>>
    /\ UNCHANGED persistVars
    /\ UNCHANGED otherVars

\* a run whose callbacks may raise
NextReplayCallbacks ==
    \/ NextReplay
    \/ StepStartRaises
    \/ CompleteRaisesInTry
    \/ CompleteRaisesInExcept

SpecReplayCallbacks == InitReplayPlain /\ [][NextReplayCallbacks]_vars

----------------------------------------------------------------------------
(* Reading the history of a run *)

\* positions of the log at which a command of action k was dispatched
DispatchesOf(k) ==
    {p \in DOMAIN log : log[p].op = "dispatch" /\ log[p].idx = k}

\* the indices on which _execute_action was called, in call order
Executed ==
    LET calls == SelectSeq(log, LAMBDA e : e.op = "execute")
    IN  [p \in DOMAIN calls |-> calls[p].idx]

\* the matcher calls of the current action, and those that found nothing
MatchCalls == SelectSeq(trace, LAMBDA e : e.op = "find_match")
NotFoundCalls ==
    SelectSeq(trace, LAMBDA e : e.op = "find_match" /\ e.arg = "not found")

\* the delays slept for the current action, in order
Sleeps ==
    LET s == SelectSeq(trace, LAMBDA e : e.op = "sleep")
    IN  [p \in DOMAIN s |-> s[p].arg]

\* no engine call of the current action has raised
NothingRaised ==
    \A p \in DOMAIN trace :
        trace[p].op \in {"refresh", "find_match"} => trace[p].arg # "raise"

\* the retry loop of the current action is being executed
InFindLoop == pc \in {"refresh", "match", "sleep"}

\* every attempt of the current action came back not-found and the loop is over
Exhausted ==
    /\ idx >= 1
    /\ trace # <<>>
    /\ ~InFindLoop
    /\ NothingRaised
    /\ Len(NotFoundCalls) = Len(MatchCalls)

RECURSIVE SumSeq(_)
SumSeq(s) == IF s = <<>> THEN 0 ELSE Head(s) + SumSeq(Tail(s))

\* the step numbers of the actions whose failure has been handled
HandledSteps ==
    LET done == IF pc = "except" THEN raised \ {idx} ELSE raised
        RECURSIVE Steps(_)
        Steps(S) == IF S = {} THEN <<>>
                    ELSE LET k == Min(S)
                         IN  <<session.actions[k].step_number>>
                                 \o Steps(S \ {k})
    IN  Steps(done)

----------------------------------------------------------------------------
(* Claims about the replay loop *)

\* C1: with stop_on_failure = true the loop ends at the first failing
\* action: no callback, refresh, matcher call or dispatch happens for a later
\* action, and the result has actions_failed = 1 and actions_succeeded = the
\* number of actions before the failing one.
C1_StopOnFailure ==
    (stop_on_failure /\ raised # {}) =>
        LET k == Min(raised) IN
        /\ raised = {k}
        /\ idx = k
        /\ pc \in {"except", "return", "done"}
        /\ \A p \in DOMAIN log : log[p].idx <= k
        /\ \A p \in DOMAIN trace : trace[p].idx = k
        /\ pc = "done" =>
              /\ result.actions_failed = 1
              /\ result.actions_succeeded = k - 1

\* action 2 of 3 failed and the run stopped there
C1_Witness ==
    /\ pc = "done"
    /\ stop_on_failure
    /\ Len(session.actions) = 3
    /\ raised = {2}
    /\ result.actions_succeeded = 1
    /\ DispatchesOf(3) = {}

\* C2: with stop_on_failure = false every action is attempted exactly once,
\* in list order, whatever failed before, and the result has
\* actions_succeeded + actions_failed = actions_total with actions_failed the
\* number of actions that failed.
C2_ContinueOnFailure ==
    ~stop_on_failure =>
        /\ Executed = [k \in 1..idx |-> k]
        /\ pc = "done" =>
              /\ idx = Len(session.actions)
              /\ result.actions_total = Len(session.actions)
              /\ result.actions_succeeded + result.actions_failed
                    = result.actions_total
              /\ result.actions_failed = Cardinality(raised)

\* two actions failed and a later one was still executed and succeeded
C2_Witness ==
    /\ pc = "done"
    /\ ~stop_on_failure
    /\ raised = {1, 2}
    /\ Len(session.actions) = 3
    /\ result.actions_succeeded = 1
    /\ DispatchesOf(3) # {}

\* C3: success is true iff actions_failed = 0: a run in which an action
\* failed returns success = false, and success = true is returned only when
\* every action was attempted and succeeded.
C3_SuccessIffNoFailure ==
    pc = "done" =>
        /\ result.success <=> (result.actions_failed = 0)
        /\ raised # {} => ~result.success
        /\ result.success =>
              /\ result.actions_succeeded = result.actions_total
              /\ Executed = [k \in 1..Len(session.actions) |-> k]

\* a partly successful run is reported as not successful
C3_Witness ==
    /\ pc = "done"
    /\ result.actions_succeeded > 0
    /\ result.actions_failed > 0
    /\ ~result.success

----------------------------------------------------------------------------
(* Claims about one action *)

\* the fingerprint of the current action is missing, or every one of the 5
\* attempts to resolve it came back not-found
ResolutionFailed ==
    /\ idx >= 1
    /\ \/ action.element = NoFingerprint
       \/ Exhausted /\ Len(MatchCalls) = 5

\* once the current action is over it is counted as failed
CountedFailed ==
    pc \in {"start", "return", "done"} =>
        /\ idx \in raised
        /\ \E p \in DOMAIN failed_steps : failed_steps[p] = action.step_number

\* C4: for every element-targeting action (click, type, upload_file,
\* select_dropdown, and scroll when it carries a fingerprint) whose
\* fingerprint is missing or cannot be resolved after the retries, no engine
\* command is dispatched for the action and the action is counted as failed
\* (its step number is in failed_steps); the failure affects no other
\* action: failed_steps holds the step numbers of exactly the actions whose
\* own execution raised.
C4_ResolutionFailure ==
    /\ (/\ ResolutionFailed
        /\ \/ action.action_type
                \in {"CLICK", "TYPE", "UPLOAD_FILE", "SELECT_DROPDOWN"}
           \/ action.action_type = "SCROLL" /\ action.element # NoFingerprint)
       => /\ DispatchesOf(idx) = {}
          /\ CountedFailed
    /\ failed_steps = HandledSteps

\* none of the lookup keys of action a is present in sensitive_data
NoLookupKey(a) ==
    /\ a.element # NoFingerprint => a.element.name \notin DOMAIN sensitive_data
    /\ a.element # NoFingerprint => a.element.id \notin DOMAIN sensitive_data
    /\ "password" \notin DOMAIN sensitive_data
    /\ "secret" \notin DOMAIN sensitive_data

\* C5: a sensitive type action whose stored text is the marker and for which
\* sensitive_data holds none of the lookup keys fails, and no type command
\* with the text "[SENSITIVE]" is dispatched for it.
C5_NeverTypesMarker ==
    \A p \in DOMAIN log :
        (/\ log[p].op = "dispatch"
         /\ log[p].arg.kind = "type"
         /\ session.actions[log[p].idx].is_sensitive
         /\ session.actions[log[p].idx].text = Marker
         /\ NoLookupKey(session.actions[log[p].idx]))
        => /\ log[p].arg.text # Marker
           /\ log[p].idx \in raised

\* the first lookup key of action a that is non-empty and present
ExpectedSecret(a) ==
    LET present(k) == k # None /\ k # "" /\ k \in DOMAIN sensitive_data
    IN  IF present(a.element.name) THEN sensitive_data[a.element.name]
        ELSE IF present(a.element.id) THEN sensitive_data[a.element.id]
        ELSE IF present("password") THEN sensitive_data["password"]
        ELSE sensitive_data["secret"]

\* C6: for a sensitive type action whose stored text is the marker, the text
\* dispatched is sensitive_data[k] for the first k, in the order
\* element.name, element.id, "password", "secret", that is non-empty and
\* present in sensitive_data.
C6_FirstKeyWins ==
    \A p \in DOMAIN log :
        (/\ log[p].op = "dispatch"
         /\ log[p].arg.kind = "type"
         /\ session.actions[log[p].idx].is_sensitive
         /\ session.actions[log[p].idx].text = Marker
         /\ ~NoLookupKey(session.actions[log[p].idx]))
        => log[p].arg.text = ExpectedSecret(session.actions[log[p].idx])

\* the element's name won over its id and over "password"
C6_Witness ==
    \E p \in DOMAIN log :
        /\ log[p].op = "dispatch"
        /\ log[p].arg.kind = "type"
        /\ session.actions[log[p].idx].text = Marker
        /\ session.actions[log[p].idx].element.name = "user"
        /\ {"user", "uid", "password"} \subseteq DOMAIN sensitive_data
        /\ log[p].arg.text = "S-user"

\* C9: when find_match returns not-found on every attempt, exactly 5 matcher
\* calls are made for the action, and only then is it marked failed.
C9_FiveAttempts ==
    /\ Len(MatchCalls) <= 5
    /\ Exhausted => Len(MatchCalls) = 5
    /\ (InFindLoop /\ NothingRaised /\ Len(MatchCalls) < 5) => idx \notin raised
    /\ exc = "Could not find element" =>
          /\ Len(NotFoundCalls) = 5
          /\ trace[Len(trace)].op = "find_match"

\* the fifth attempt of an action came back not-found and the action failed
C9_Witness ==
    /\ pc = "except"
    /\ exc = "Could not find element"
    /\ Len(NotFoundCalls) = 5
    /\ idx \in raised

\* 1.0 s, 1.5 s, 2.25 s, 3.375 s
ExpectedDelays ==
    <<Sec, (3 * Sec) \div 2, (9 * Sec) \div 4, (27 * Sec) \div 8>>

\* C10: the sleeps between failed attempts are 1.0 s, 1.5 s, 2.25 s and
\* 3.375 s; an unresolvable fingerprint causes exactly 4 sleeps, 8.125 s in
\* all; a sleep follows a not-found attempt that is not the last, never the
\* last attempt or a successful one; no sleep is longer than 5.0 s.
C10_Backoff ==
    /\ Len(Sleeps) <= 4
    /\ \A k \in DOMAIN Sleeps :
          /\ Sleeps[k] = ExpectedDelays[k]
          /\ Sleeps[k] <= 5 * Sec
    /\ Exhausted =>
          /\ Len(Sleeps) = 4
          /\ SumSeq(Sleeps) = (65 * Sec) \div 8
          /\ trace[Len(trace)].op = "find_match"
    /\ \A p \in DOMAIN trace :
          /\ trace[p].op = "sleep" =>
                /\ p > 1
                /\ trace[p - 1].op = "find_match"
                /\ trace[p - 1].arg = "not found"
          /\ (trace[p].op = "find_match" /\ trace[p].arg = "found") =>
                p = Len(trace)
    /\ (trace # <<>> /\ trace[Len(trace)].op = "sleep") => pc = "refresh"

\* all four sleeps of an unresolvable fingerprint have been slept
C10_Witness ==
    /\ Exhausted
    /\ exc = "Could not find element"
    /\ Sleeps = ExpectedDelays
    /\ SumSeq(Sleeps) = 130

\* exceptions of the engine being unreachable, as str(e)
SessionFailures == {"engine unreachable", "selector map unreadable"}

\* C12: when the uncached DOM-state refresh or the selector-map read raises
\* because the engine is unreachable, replay() raises to its caller: the
\* exception is never recorded as the failure of one action in `errors`.
C12_SessionFailurePropagates ==
    \A p \in DOMAIN errors : errors[p][3] \notin SessionFailures

\* C19: replay() never modifies the RecordedSession it is given: no step of
\* a run changes the action list or any field of an action, text and
\* step_number included.
C19_SessionUntouched == [][session' = session]_vars

\* a run is over in which a secret was typed in place of the marker and
\* another action failed, and the session still holds the marker
C19_Witness ==
    /\ pc = "done"
    /\ result # NoResult
    /\ failed >= 1
    /\ \E p \in DOMAIN log :
          /\ log[p].op = "dispatch"
          /\ log[p].arg.kind = "type"
          /\ log[p].arg.text = SecretOf.user
          /\ session.actions[log[p].idx].text = Marker
    /\ session = twin

----------------------------------------------------------------------------
(* Claims about the order of a run *)

\* an engine call or a backoff sleep of the current action is awaited
AwaitingEngine == pc \in {"refresh", "match", "sleep", "dispatch"}

\* the node a dispatched command carries, None for a command without one
NodeOf(command) ==
    IF "node" \in DOMAIN command THEN command.node ELSE None

\* C21: within one run at most one engine command is in flight: the matcher
\* queries and the dispatch of action i+1 start only after the dispatch of
\* action i has completed or failed, and the commands are dispatched in the
\* order of the session's action list.
C21_OneCommandInFlight ==
    LET dispatches == {p \in DOMAIN log : log[p].op = "dispatch"}
        dispatched == {log[p].idx : p \in dispatches}
    IN
    /\ \A p \in DOMAIN log : p > 1 => log[p - 1].idx <= log[p].idx
    /\ Cardinality(dispatched) = Cardinality(dispatches)
    /\ \A p \in dispatches :
          log[p].arg = BuildEvent(session.actions[log[p].idx],
                                  NodeOf(log[p].arg), sensitive_data)
    /\ \A p \in DOMAIN trace : trace[p].idx = idx
    /\ AwaitingEngine =>
          /\ succeeded + failed = idx - 1
          /\ idx \notin dispatched
          /\ \A k \in 1..(idx - 1) : k \in raised \/ k \in dispatched
          /\ exc = None

\* the third action is being dispatched after its element was looked up;
\* the first action has failed and the second has been dispatched
C21_Witness ==
    /\ pc = "dispatch"
    /\ idx = 3
    /\ raised = {1}
    /\ failed = 1
    /\ succeeded = 1
    /\ DispatchesOf(2) # {}
    /\ \E p \in DOMAIN trace : trace[p].op = "find_match"

\* the action types that name no target element
DirectTypes ==
    {"NAVIGATE", "SEND_KEYS", "GO_BACK", "GO_FORWARD", "REFRESH", "WAIT"}

\* the dispatch of action k has completed or failed
Dispatched(k) == k < idx \/ (k = idx /\ pc # "dispatch")

\* C22: navigate, send_keys, go_back, go_forward, refresh and wait actions
\* never invoke the matcher or the DOM-state refresh, whether or not a
\* fingerprint is attached to them; a navigate action dispatches exactly one
\* navigate command carrying the action's url (the empty string when the
\* action has no url).
C22_DirectDispatch ==
    /\ (idx >= 1 /\ action.action_type \in DirectTypes) =>
          /\ trace = <<>>
          /\ pc \notin {"refresh", "match", "sleep"}
          /\ node = None
    /\ \A k \in 1..idx :
          (session.actions[k].action_type = "NAVIGATE" /\ Dispatched(k)) =>
              /\ Cardinality(DispatchesOf(k)) = 1
              /\ \A p \in DispatchesOf(k) :
                    /\ log[p].arg.kind = "navigate"
                    /\ session.actions[k].url # None =>
                          log[p].arg.url = session.actions[k].url
                    /\ session.actions[k].url = None => log[p].arg.url = ""
                    /\ DOMAIN log[p].arg = {"kind", "url", "new_tab"}

\* a navigate action that carries a fingerprint is over: its url was
\* dispatched and no refresh or matcher call was made
C22_Witness ==
    /\ pc = "done"
    /\ idx = 1
    /\ action.action_type = "NAVIGATE"
    /\ action.element # NoFingerprint
    /\ trace = <<>>
    /\ \E p \in DispatchesOf(1) : log[p].arg.url = "http://b"
    /\ result.actions_succeeded = 1

\* positions of the log at which a callback was made for action k
Starts(k) ==
    {p \in DOMAIN log : log[p].op = "on_step_start" /\ log[p].idx = k}
Completes(k) ==
    {p \in DOMAIN log : log[p].op = "on_step_complete" /\ log[p].idx = k}

\* action k has been attempted and counted
Over(k) == k < idx \/ (k = idx /\ pc \in {"start", "return", "done"})

\* C24: for every attempted action, on_step_start(step, action) is called
\* exactly once before any matcher query or dispatch of that action, and
\* on_step_complete(step, success, error) exactly once after it, with
\* success = true exactly when the action was counted as succeeded and
\* success = false with the error text when it was counted as failed; no
\* callback is made for an action that is not attempted.
C24_CallbacksOncePerAction ==
    callbacks =>
        LET starts == {p \in DOMAIN log : log[p].op = "on_step_start"}
            completes == {p \in DOMAIN log : log[p].op = "on_step_complete"}
            over == {k \in 1..idx : Over(k)}
        IN
        /\ \A p \in DOMAIN log :
              /\ log[p].idx \in 1..idx
              /\ p > 1 => log[p - 1].idx <= log[p].idx
        /\ Cardinality(starts) = idx
        /\ Cardinality(completes) = Cardinality(over)
        /\ Cardinality({p \in completes : log[p].arg[2]}) = succeeded
        /\ Cardinality({p \in completes : ~log[p].arg[2]}) = failed
        /\ \A k \in 1..idx :
              \E p \in starts :
                  /\ log[p].idx = k
                  /\ log[p].arg = session.actions[k].step_number
                  /\ p = 1 \/ log[p - 1].idx < k
        /\ \A k \in over :
              LET a == session.actions[k] IN
              \E p \in completes :
                  /\ log[p].idx = k
                  /\ p = Len(log) \/ log[p + 1].idx > k
                  /\ log[p].arg[1] = a.step_number
                  /\ log[p].arg[2] <=> k \notin raised
                  /\ log[p].arg[2] => log[p].arg[3] = None
                  /\ ~log[p].arg[2] =>
                        \E i \in DOMAIN errors :
                            /\ failed_steps[i] = a.step_number
                            /\ errors[i] =
                                  <<a.step_number,
                                    ActionTypeValue[a.action_type],
                                    log[p].arg[3]>>
        /\ \A p \in completes : Over(log[p].idx)

\* three actions were attempted with callbacks set: the second failed in
\* its dispatch and was reported with success = false and the error text
C24_Witness ==
    /\ pc = "done"
    /\ callbacks
    /\ Len(session.actions) = 3
    /\ raised = {2}
    /\ \E p \in Completes(2) : log[p].arg[3] = "dispatch failed"
    /\ \E p \in Completes(3) : log[p].arg[2]
    /\ Cardinality(Starts(3)) = 1

\* the positions of the actions that failed, in execution order
RECURSIVE Ascending(_)
Ascending(S) ==
    IF S = {} THEN <<>> ELSE <<Min(S)>> \o Ascending(S \ {Min(S)})

\* C25: in every ReplayResult, failed_steps and errors both have length
\* actions_failed, failed_steps[i] is the step_number of the i-th failed
\* action in execution order, and errors[i] describes that same action.
C25_FailureListsAgree ==
    pc = "done" =>
        LET order == Ascending(raised) IN
        /\ Len(result.failed_steps) = result.actions_failed
        /\ Len(result.errors) = result.actions_failed
        /\ Len(order) = result.actions_failed
        /\ \A i \in DOMAIN order :
              LET a == session.actions[order[i]] IN
              /\ result.failed_steps[i] = a.step_number
              /\ result.errors[i][1] = a.step_number
              /\ result.errors[i][2] = ActionTypeValue[a.action_type]
              /\ result.errors[i][3] # None

\* a run whose steps are numbered from 3 has ended with its first and its
\* third action failed, for different reasons
C25_Witness ==
    /\ pc = "done"
    /\ raised = {1, 3}
    /\ result.actions_failed = 2
    /\ result.failed_steps = <<3, 5>>
    /\ result.errors[1][3] # result.errors[2][3]

\* the DOM-state refreshes of the current action that returned
Refreshes ==
    SelectSeq(trace, LAMBDA e : e.op = "refresh" /\ e.arg = "ok")

\* C27: every find_match call made by the replayer is immediately preceded
\* by its own uncached DOM-state refresh: k match attempts for an action
\* imply exactly k refreshes, each one before its attempt.
C27_RefreshBeforeEveryMatch ==
    /\ \A p \in DOMAIN trace :
          /\ trace[p].op = "find_match" =>
                /\ p > 1
                /\ trace[p - 1].op = "refresh"
                /\ trace[p - 1].arg = "ok"
          /\ (trace[p].op = "refresh" /\ trace[p].arg = "ok") =>
                IF p = Len(trace) THEN pc = "match"
                ELSE trace[p + 1].op = "find_match"
    /\ Len(Refreshes) = Len(MatchCalls) + (IF pc = "match" THEN 1 ELSE 0)
    /\ pc = "match" =>
          /\ trace # <<>>
          /\ trace[Len(trace)].op = "refresh"
          /\ trace[Len(trace)].arg = "ok"

\* the third attempt of an action has found its element: three refreshes
\* and three matcher calls were made, in turn
C27_Witness ==
    /\ pc = "dispatch"
    /\ Len(MatchCalls) = 3
    /\ Len(Refreshes) = 3
    /\ Len(Sleeps) = 2
    /\ trace[Len(trace)].op = "find_match"
    /\ trace[Len(trace)].arg = "found"

\* the loop was left by the break of the except branch
StoppedEarly == pc \in {"return", "done"} /\ idx < Len(session.actions)

\* C29: every run over a finite session terminates, provided each engine
\* call returns or raises: it ends either after the last action or right
\* after the first failure when stop_on_failure is true, and in both cases
\* returns exactly one ReplayResult; the early stop is reached only if
\* stop_on_failure is true and an action failed.
C29_Terminates ==
    /\ <>(pc = "done")
    /\ [](pc = "done" =>
            /\ result # NoResult
            /\ \/ idx = Len(session.actions)
               \/ stop_on_failure /\ raised = {idx})
    /\ [](StoppedEarly => (stop_on_failure /\ failed = 1 /\ raised = {idx}))
    /\ [](pc # "done" => result = NoResult)
    /\ [][result # NoResult => result' = result]_vars

\* a run has stopped early: its second action of three failed after five
\* attempts and its one result has been returned
C29_Witness ==
    /\ pc = "done"
    /\ StoppedEarly
    /\ idx = 2
    /\ Len(session.actions) = 3
    /\ Len(MatchCalls) = 5
    /\ result # NoResult
    /\ result.actions_failed = 1

\* positions of the log at which the run was cancelled
Cancels == {p \in DOMAIN log : log[p].op = "cancel"}

\* C26: when the caller cancels a run while an action is in flight (during
\* a DOM refresh, matcher query, backoff sleep or dispatch, the element
\* lookup of a scroll action included), replay() ends with the cancellation
\* propagating to the caller: the cancellation is not recorded as an action
\* failure, and no later action is started.  Between the cancellation and
\* the end of replay() the run does one thing at most: it awaits the
\* discard of an xpath search that the cancellation interrupted, and then
\* ends whether that call returns or raises.
C26_CancellationPropagates ==
    /\ [](Cancels # {} =>
            /\ pc \in {"discard", "cancelled"}
            /\ pc = "cancelled" => exc = "CancelledError"
            /\ \A p \in DOMAIN log :
                  p >= Min(Cancels) => /\ log[p].op = "cancel"
                                       /\ log[p].idx = idx
            /\ Cardinality(Cancels) <= 2
            /\ result = NoResult
            /\ idx \notin raised
            /\ failed = Cardinality(raised)
            /\ Len(errors) = failed
            /\ Len(failed_steps) = failed
            /\ \A i \in DOMAIN errors : errors[i][3] # "CancelledError"
            /\ Completes(idx) = {}
            /\ succeeded + failed = idx - 1)
    /\ [](pc = "discard" =>
            /\ Cancels = {Len(log)}
            /\ log[Len(log)].arg = "match"
            /\ action.element.xpath \notin {None, ""})
    /\ [][Cancels # {} =>
            \/ trace' = trace
            \/ /\ pc = "discard"
               /\ pc' = "cancelled"
               /\ log' = log
               /\ \E how \in {"ok", "raise"} :
                     trace' = Append(trace, Event("discard", how))]_vars
    /\ [][pc # "cancelled"]_vars
    /\ (pc = "discard") ~> (pc = "cancelled")

\* a run was cancelled during the matcher call of a scroll action's element
\* lookup, inside the xpath search: the search was discarded (the call
\* raised), then the run ended; nothing was counted, no result was returned
C26_Witness ==
    /\ pc = "cancelled"
    /\ idx = 1
    /\ action.action_type = "SCROLL"
    /\ Cancels = {Len(log)}
    /\ log[Len(log)].arg = "match"
    /\ trace # <<>>
    /\ trace[Len(trace)] = Event("discard", "raise")
    /\ failed = 0
    /\ result = NoResult

\* the command carries the recorded text, when one was recorded
CarriesStr(recorded, sent) == recorded # None => sent = recorded

\* the command carries the recorded number, when one was recorded
CarriesNum(recorded, sent) == recorded # NoneNum => sent = recorded

\* C35: replay dispatches each action with exactly the parameters that were
\* recorded: the wait command carries the recorded wait_seconds, the scroll
\* command the recorded direction and scroll_amount, and likewise url, keys,
\* file_path, dropdown_option and clear_before_type, for every recorded
\* value including 0 and the empty string.
C35_RecordedParameters ==
    \A p \in DOMAIN log :
        log[p].op = "dispatch" =>
            LET a == session.actions[log[p].idx]
                e == log[p].arg
            IN  CASE a.action_type = "WAIT" ->
                        CarriesNum(a.wait_seconds, e.seconds)
                  [] a.action_type = "SCROLL" ->
                        /\ CarriesStr(a.direction, e.direction)
                        /\ CarriesNum(a.scroll_amount, e.amount)
                  [] a.action_type = "NAVIGATE" -> CarriesStr(a.url, e.url)
                  [] a.action_type = "SEND_KEYS" -> CarriesStr(a.keys, e.keys)
                  [] a.action_type = "UPLOAD_FILE" ->
                        CarriesStr(a.file_path, e.file_path)
                  [] a.action_type = "SELECT_DROPDOWN" ->
                        CarriesStr(a.dropdown_option, e.text)
                  [] a.action_type = "TYPE" -> e.clear = a.clear_before_type
                  [] OTHER -> TRUE

\* the actions counted in `succeeded`: their dispatch has returned
CountedSucceeded ==
    {log[p].idx : p \in {q \in DOMAIN log : log[q].op = "dispatch"}} \ raised

\* C34: in every ReplayResult, actions_succeeded + actions_failed equals the
\* number of actions that were attempted and never exceeds actions_total,
\* and no action is counted both as succeeded and as failed; this holds
\* also when the on_step_complete callback raises an exception.
C34_CountsPartition ==
    result # NoResult =>
        /\ result.actions_succeeded + result.actions_failed = idx
        /\ result.actions_succeeded + result.actions_failed
              <= result.actions_total
        /\ \A k \in CountedSucceeded :
              \A p \in DOMAIN result.failed_steps :
                  result.failed_steps[p] # session.actions[k].step_number

----------------------------------------------------------------------------
(* Live DOM nodes and ElementFingerprint.from_node *)

NoNode == [no_node |-> TRUE]
NoAx == [no_ax |-> TRUE]
NoPos == [no_pos |-> TRUE]

\* attrs.get(key)
AttrGet(attrs, key) == IF key \in DOMAIN attrs THEN attrs[key] ELSE None

\* str.split() of the class attributes of the model's nodes
Split(text) ==
    CASE text = "field wide" -> <<"field", "wide">>
      [] text = "btn" -> <<"btn">>
      [] OTHER -> <<>>

\* the input the recorded fingerprint FpFull was taken from
LoginNode ==
    [backend_node_id |-> 12, tag_name |-> "input",
     attributes |-> ("id" :> "uid") @@ ("data-testid" :> "login-field")
                    @@ ("aria-label" :> "") @@ ("name" :> "user")
                    @@ ("placeholder" :> "Name") @@ ("class" :> "field wide"),
     ax_node |-> [name |-> "User name", description |-> None,
                  role |-> "textbox"],
     css_selector |-> "#login", xpath |-> "html/body/input",
     stable_hash |-> 7,
     absolute_position |-> [x |-> 10, y |-> 0, width |-> 4, height |-> 2]]

\* ElementFingerprint.from_node(node, index); css_selector, xpath and
\* stable_hash of a node are what generate_css_selector_for_element, node.xpath
\* and node.compute_stable_hash() answer
from_node(n, index) ==
    IF n = NoNode THEN ElementFingerprint
    ELSE
    LET attrs == n.attributes
        pos == n.absolute_position
        ax == n.ax_node
        own_role == AttrGet(attrs, "role")
        class == AttrGet(attrs, "class")
    IN  [css_selector |-> n.css_selector,
         xpath |-> n.xpath,
         stable_hash |-> n.stable_hash,
         backend_node_id |-> n.backend_node_id,
         id |-> AttrGet(attrs, "id"),
         data_testid |-> AttrGet(attrs, "data-testid"),
         aria_label |-> AttrGet(attrs, "aria-label"),
         name |-> AttrGet(attrs, "name"),
         placeholder |-> AttrGet(attrs, "placeholder"),
         href |-> AttrGet(attrs, "href"),
         role |-> IF (own_role = None \/ own_role = "") /\ ax # NoAx
                  THEN ax.role ELSE own_role,
         tag_name |-> n.tag_name,
         text_content |-> IF ax = NoAx THEN None
                          ELSE IF ax.name = None \/ ax.name = ""
                               THEN ax.description ELSE ax.name,
         classes |-> IF class = None \/ class = "" THEN <<>> ELSE Split(class),
         x |-> IF pos = NoPos THEN NoneNum ELSE pos.x,
         y |-> IF pos = NoPos THEN NoneNum ELSE pos.y,
         width |-> IF pos = NoPos THEN NoneNum ELSE pos.width,
         height |-> IF pos = NoPos THEN NoneNum ELSE pos.height,
         recorded_index |-> index]

----------------------------------------------------------------------------
(* BrowserUseRecorder: attach, detach and the event handlers *)

NoAction == [no_action |-> TRUE]

\* _cached_selector_map of the live session being recorded
CachedSelectorMap == <<[index |-> 0, node |-> LoginNode]>>

\* the events of the live session's bus: `type` is the event class, the other
\* fields are the attributes the event object has
RecorderEvents ==
    { [type |-> "NavigateToUrlEvent", url |-> "http://a", new_tab |-> TRUE],
      [type |-> "NavigateToUrlEvent", url |-> "http://a"],
      [type |-> "NavigateToUrlEvent", new_tab |-> FALSE],
      [type |-> "ClickElementEvent", node |-> LoginNode],
      [type |-> "ClickElementEvent"],
      [type |-> "TypeTextEvent", node |-> LoginNode, text |-> "hello",
       is_sensitive |-> TRUE, clear |-> FALSE],
      [type |-> "TypeTextEvent", node |-> LoginNode, text |-> ""],
      [type |-> "TypeTextEvent", node |-> LoginNode],
      [type |-> "TypeTextEvent", text |-> "hello"],
      [type |-> "ScrollEvent", direction |-> "up", amount |-> 0],
      [type |-> "ScrollEvent", node |-> LoginNode, direction |-> "down",
       amount |-> 300],
      [type |-> "ScrollEvent", amount |-> 300],
      [type |-> "SendKeysEvent", keys |-> "Enter"],
      [type |-> "SendKeysEvent"],
      [type |-> "GoBackEvent"],
      [type |-> "GoForwardEvent"],
      [type |-> "RefreshEvent"],
      [type |-> "WaitEvent", seconds |-> 2 * Sec, max_seconds |-> Sec],
      [type |-> "WaitEvent", max_seconds |-> Sec],
      [type |-> "UploadFileEvent", node |-> LoginNode, file_path |-> "/tmp/f"],
      [type |-> "UploadFileEvent", node |-> LoginNode],
      [type |-> "SelectDropdownOptionEvent", node |-> LoginNode,
       text |-> "one"],
      [type |-> "SelectDropdownOptionEvent", node |-> LoginNode] }

\* the events of which several are events in a row
CoreEvents ==
    { [type |-> "ClickElementEvent", node |-> LoginNode],
      [type |-> "NavigateToUrlEvent", new_tab |-> FALSE] }

\* the first event has any shape; core events follow a core event
EventChoices(calls) ==
    IF calls = <<>> THEN RecorderEvents
    ELSE IF calls[1].event \in CoreEvents THEN CoreEvents ELSE {}

\* the attributes a handler reads with event.<name>
Required(type) ==
    CASE type = "NavigateToUrlEvent" -> {"url"}
      [] type = "ClickElementEvent" -> {"node"}
      [] type = "TypeTextEvent" -> {"node", "text"}
      [] type = "ScrollEvent" -> {"direction", "amount"}
      [] type = "SendKeysEvent" -> {"keys"}
      [] type = "WaitEvent" -> {"seconds", "max_seconds"}
      [] type = "UploadFileEvent" -> {"node", "file_path"}
      [] type = "SelectDropdownOptionEvent" -> {"node", "text"}
      [] OTHER -> {}

\* the handler's attribute access raises AttributeError
Lacks(event) == \E f \in Required(event.type) : f \notin DOMAIN event

\* getattr(event, name, default)
GetAttr(event, name, default) ==
    IF name \in DOMAIN event THEN event[name] ELSE default

\* _get_element_index(node)
get_element_index(r, n) ==
    IF r.browser_session = None THEN NoneNum
    ELSE LET hits == {k \in DOMAIN CachedSelectorMap :
                         CachedSelectorMap[k].node.backend_node_id
                             = n.backend_node_id}
         IN  IF hits = {} THEN NoneNum
             ELSE CachedSelectorMap[Min(hits)].index

\* the RecordedAction the handler of `event` hands to _record
Recorded(r, event, timestamp) ==
    LET A(t) == RecordedAction(t, timestamp)
        fp(n) == from_node(n, get_element_index(r, n))
    IN
    CASE event.type = "NavigateToUrlEvent" ->
            [A("NAVIGATE") EXCEPT !.url = event.url,
                                  !.new_tab = GetAttr(event, "new_tab", FALSE)]
      [] event.type = "ClickElementEvent" ->
            [A("CLICK") EXCEPT !.element = fp(event.node)]
      [] event.type = "TypeTextEvent" ->
            [A("TYPE") EXCEPT
                !.element = fp(event.node),
                !.text = event.text,
                !.is_sensitive = GetAttr(event, "is_sensitive", FALSE),
                !.clear_before_type = GetAttr(event, "clear", TRUE)]
      [] event.type = "ScrollEvent" ->
            [A("SCROLL") EXCEPT
                !.element = IF "node" \in DOMAIN event
                            THEN fp(event.node) ELSE NoFingerprint,
                !.direction = event.direction,
                !.scroll_amount = event.amount]
      [] event.type = "SendKeysEvent" ->
            [A("SEND_KEYS") EXCEPT !.keys = event.keys]
      [] event.type = "GoBackEvent" -> A("GO_BACK")
      [] event.type = "GoForwardEvent" -> A("GO_FORWARD")
      [] event.type = "RefreshEvent" -> A("REFRESH")
      [] event.type = "WaitEvent" ->
            [A("WAIT") EXCEPT
                !.wait_seconds = IF event.seconds <= event.max_seconds
                                 THEN event.seconds ELSE event.max_seconds]
      [] event.type = "UploadFileEvent" ->
            [A("UPLOAD_FILE") EXCEPT !.element = fp(event.node),
                                     !.file_path = event.file_path]
      [] event.type = "SelectDropdownOptionEvent" ->
            [A("SELECT_DROPDOWN") EXCEPT !.element = fp(event.node),
                                         !.dropdown_option = event.text]

\* a plausible slip: attach() starts a new session over the current one
AttachFailsNever(r) == FALSE

\* attach(): if self._is_recording: raise RuntimeError("Already recording")
AttachFails(r) == r.is_recording

\* detach(): if not self._is_recording or self._session is None: raise
DetachFails(r) == ~r.is_recording \/ r.session = 0

\* a plausible slip: the critical section is entered without the lock
LockFreeAlways(holder) == TRUE

\* async with self._lock: entered when no handler holds the lock
LockFree(holder) == holder = 0

\* a plausible slip: _record appends to the session it saw when it was called
AppendTargetSeen(r, seen) == seen

\* self._session.actions.append(action): the session is read again
AppendTarget(r, seen) == r.session

InitRecorder ==
    /\ RecorderIdle
    /\ MatcherIdle
    /\ PairIdle
    /\ StreamIdle
    /\ session = RecordedSession("s1", "0.11.2", <<>>)
    /\ PersistIdle
    /\ ReplayIdle

\* await recorder.attach(browser_session)
Attach ==
    /\ api.n < MaxCalls
    /\ IF AttachFails(recorder)
       THEN /\ api' = Call(api.n + 1, "attach", "Already recording")
            /\ UNCHANGED <<recorder, heap, subscriptions>>
       ELSE /\ heap' = Append(heap, RecordedSession("s1", "0.11.2", <<>>))
            /\ recorder' = [recorder EXCEPT !.browser_session = "live",
                                            !.session = Len(heap) + 1,
                                            !.is_recording = TRUE]
            /\ subscriptions' = subscriptions + 1
            /\ api' = Call(api.n + 1, "attach", None)
    /\ UNCHANGED <<events, invocations, lock, returned>>
    /\ UNCHANGED outsideRecorder

\* recorder.detach()
Detach ==
    /\ api.n < MaxCalls
    /\ IF DetachFails(recorder)
       THEN /\ api' = Call(api.n + 1, "detach", "Not recording")
            /\ UNCHANGED <<recorder, returned>>
       ELSE /\ recorder' = [recorder EXCEPT !.is_recording = FALSE,
                                            !.session = 0,
                                            !.browser_session = None]
            /\ api' = Call(api.n + 1, "detach", None)
            /\ returned' = Append(returned,
                                  [object |-> recorder.session,
                                   session |-> heap[recorder.session]])
    /\ UNCHANGED <<heap, subscriptions, events, invocations, lock>>
    /\ UNCHANGED outsideRecorder

\* the handler calls that have neither returned nor raised
InFlight ==
    {h \in DOMAIN invocations : invocations[h].pc \in {"called", "lock",
                                                        "counted"}}

\* the live session's bus delivers an event: every subscribed handler of
\* its type is called
Deliver ==
    /\ Len(events) < MaxEvents
    /\ Cardinality(InFlight) + subscriptions <= MaxInFlight
    /\ \E event \in EventChoices(events) :
          /\ events' = Append(events, [event |-> event,
                                       attached |-> recorder.is_recording])
          /\ invocations' = invocations \o
              [k \in 1..subscriptions |->
                  [ev |-> Len(events) + 1, pc |-> "called", seen |-> 0,
                   action |-> NoAction]]
    /\ UNCHANGED <<recorder, heap, subscriptions, lock, api, returned>>
    /\ UNCHANGED outsideRecorder

\* _on_<event>: build the RecordedAction; _record: if not self._session: return
Handle(h) ==
    /\ invocations[h].pc = "called"
    /\ LET event == events[invocations[h].ev].event IN
       invocations' = [invocations EXCEPT ![h] =
          IF Lacks(event)
          THEN [@ EXCEPT !.pc = "raised"]
          ELSE IF recorder.session = 0
               THEN [@ EXCEPT !.pc = "returned"]
               ELSE [@ EXCEPT !.pc = "lock", !.seen = recorder.session,
                              !.action = Recorded(recorder, event,
                                           ToString(invocations[h].ev))]]
    /\ UNCHANGED <<recorder, heap, subscriptions, events, lock, api,
                   returned>>
    /\ UNCHANGED outsideRecorder

\* async with self._lock: the lock is acquired; self._step_counter += 1
AcquireIncrement(h) ==
    /\ invocations[h].pc = "lock"
    /\ LockFree(lock)
    /\ lock' = h
    /\ recorder' = [recorder EXCEPT !.step_counter = @ + 1]
    /\ invocations' = [invocations EXCEPT ![h].pc = "counted"]
    /\ UNCHANGED <<heap, subscriptions, events, api, returned>>
    /\ UNCHANGED outsideRecorder

\* action.step_number = self._step_counter;
\* self._session.actions.append(action); the lock is released
AssignAppend(h) ==
    /\ invocations[h].pc = "counted"
    /\ LET numbered == [invocations[h].action EXCEPT
                           !.step_number = recorder.step_counter]
           target == AppendTarget(recorder, invocations[h].seen)
       IN  IF target = 0
           THEN \* 'NoneType' object has no attribute 'actions'
                /\ invocations' = [invocations EXCEPT
                                      ![h].pc = "raised",
                                      ![h].action = numbered]
                /\ UNCHANGED heap
           ELSE /\ invocations' = [invocations EXCEPT
                                      ![h].pc = "returned",
                                      ![h].action = numbered]
                /\ heap' = [heap EXCEPT
                               ![target].actions = Append(@, numbered)]
    /\ lock' = 0
    /\ UNCHANGED <<recorder, subscriptions, events, api, returned>>
    /\ UNCHANGED outsideRecorder

NextRecorder ==
    \/ Attach
    \/ Detach
    \/ Deliver
    \/ \E h \in DOMAIN invocations : Handle(h)
    \/ \E h \in DOMAIN invocations : AcquireIncrement(h)
    \/ \E h \in DOMAIN invocations : AssignAppend(h)

SpecRecorder == InitRecorder /\ [][NextRecorder]_vars

----------------------------------------------------------------------------
(* Claims about the recorder *)

\* the step numbers of a list of actions, in list order
StepNumbers(actions) == [k \in DOMAIN actions |-> actions[k].step_number]

\* C13: in every RecordedSession returned by detach() the i-th action has
\* step_number = i, for every attach/detach cycle of one recorder,
\* re-attachment included.
C13_NumberedFromOne ==
    \A r \in DOMAIN returned :
        \A i \in DOMAIN returned[r].session.actions :
            returned[r].session.actions[i].step_number = i

\* C14: events handled concurrently get distinct step numbers, none skipped
\* and none used twice, and the list order is the step-number order: in every
\* session the numbers go up by one along the list, no number is in two
\* sessions, and none is beyond the counter.
C14_AtomicNumbering ==
    /\ \A o \in DOMAIN heap :
          LET steps == StepNumbers(heap[o].actions) IN
          /\ \A i \in DOMAIN steps :
                /\ steps[i] >= 1
                /\ steps[i] <= recorder.step_counter
                /\ i > 1 => steps[i] = steps[i - 1] + 1
          /\ \A q \in DOMAIN heap : \A i \in DOMAIN steps :
                \A j \in DOMAIN heap[q].actions :
                    heap[q].actions[j].step_number = steps[i] =>
                        (q = o /\ j = i)
    /\ \A h \in DOMAIN invocations :
          invocations[h].pc = "counted" => lock = h

\* an action is recorded, one handler is inside the critical section with
\* the counter incremented and another waits for the lock
C14_Witness ==
    /\ \E h, w \in DOMAIN invocations :
          /\ invocations[h].pc = "counted"
          /\ lock = h
          /\ invocations[w].pc = "lock"
    /\ recorder.session # 0
    /\ Len(heap[recorder.session].actions) >= 1
    /\ recorder.step_counter = 2

\* C15: detach() removes every subscription attach() made: a handler is
\* called only for an event delivered while the recorder is attached, and
\* once for each event, also after the recorder is attached again.
C15_DetachUnsubscribes ==
    /\ \A h \in DOMAIN invocations : events[invocations[h].ev].attached
    /\ \A h, g \in DOMAIN invocations :
          invocations[h].ev = invocations[g].ev => h = g

\* C16: attach() raises when the recorder is recording and detach() raises
\* when it is not, and a call that raises leaves the recording flag, the
\* current session and its actions, the step counter and the subscriptions
\* as they were.
C16_ErrorsChangeNothing ==
    [][api'.n = api.n + 1 =>
          /\ (api'.op = "attach" /\ recorder.is_recording)
                => api'.raised = "Already recording"
          /\ (api'.op = "detach" /\ ~recorder.is_recording)
                => api'.raised = "Not recording"
          /\ api'.raised # None
                => UNCHANGED <<recorder, heap, subscriptions, returned>>]_vars

\* attach() has raised on a recorder that holds a recorded action, and the
\* action is still there
C16_Witness ==
    /\ api.op = "attach"
    /\ api.raised = "Already recording"
    /\ recorder.is_recording
    /\ recorder.session # 0
    /\ Len(heap[recorder.session].actions) >= 1
    /\ recorder.step_counter >= 1

\* C17: once detach() has returned a session, no handler appends to or
\* changes its action list, whether its event is delivered after the detach
\* or its handling overlaps the detach.
C17_ReturnedIsFrozen ==
    \A r \in DOMAIN returned :
        heap[returned[r].object] = returned[r].session

\* a handler that saw the session before detach() has ended after it, and a
\* handler of an event delivered after detach() has ended too
C17_Witness ==
    /\ returned # <<>>
    /\ \E h, g \in DOMAIN invocations :
          /\ invocations[h].seen = returned[1].object
          /\ invocations[h].pc = "raised"
          /\ ~events[invocations[g].ev].attached
          /\ invocations[g].pc = "returned"
    /\ heap[returned[1].object] = returned[1].session

\* C18: an event that lacks a field its handler reads is dropped: no
\* exception leaves the handler, and the action list and the step counter
\* stay as they were.
C18_MalformedDropped ==
    \A h \in DOMAIN invocations :
        Lacks(events[invocations[h].ev].event) =>
            /\ invocations[h].pc # "raised"
            /\ invocations[h].action = NoAction

----------------------------------------------------------------------------
(* ElementMatcher.find_match on a live session *)

\* a second input of the page, alike LoginNode in hash, name and test id
TwinNode ==
    [backend_node_id |-> 30, tag_name |-> "INPUT",
     attributes |-> ("data-testid" :> "login-field") @@ ("name" :> "user")
                    @@ ("placeholder" :> "Name"),
     ax_node |-> [name |-> "Enter USER NAME here", description |-> None,
                  role |-> "textbox"],
     css_selector |-> "#twin", xpath |-> "html/body/form/input",
     stable_hash |-> 7,
     absolute_position |-> [x |-> 10, y |-> 8, width |-> 4, height |-> 2]]

\* str.lower() of the tags and texts of the model
Lower(text) ==
    CASE text = "INPUT" -> "input"
      [] text = "A" -> "a"
      [] text = "User name" -> "user name"
      [] text = "Enter USER NAME here" -> "enter user name here"
      [] text = "Go On" -> "go on"
      [] OTHER -> text

\* needle in hay, for the lower-case texts of the model
IsSubstring(needle, hay) ==
    \/ needle = hay
    \/ needle = ""
    \/ needle = "user name" /\ hay = "enter user name here"
    \/ needle = "go on" /\ hay = "click to go on"

\* bool(x) of an Optional[str]
TruthyStr(x) == x # None /\ x # ""

NoMatch == [no_match |-> TRUE]

\* (idx, node) as find_match returns it
Match(entry) == [index |-> entry.index, node |-> entry.node]

\* one engine query, and the strategy that issued it
Query(strategy, call) == [strategy |-> strategy, call |-> call]

\* what one strategy has done: its match, the engine queries it issued, and
\* whether an exception left it
Outcome(match, queries, error) ==
    [match |-> match, queries |-> queries, raised |-> error]

\* for idx, node in selector_map.items(): the first entry that passes
FirstEntry(selector_map, hits) ==
    IF hits = {} THEN NoMatch ELSE Match(selector_map[Min(hits)])

\* scan of the selector map for a backend node id
ByBackendId(selector_map, backend_node_id) ==
    FirstEntry(selector_map,
        {k \in DOMAIN selector_map : LET e == selector_map[k] IN
            e.node.backend_node_id = backend_node_id})

\* node_tag = getattr(node, "tag_name", None) or ...; node_tag.lower()
NodeTag(n) == Lower(n.tag_name)

\* the engine call raises on this live session
Down(page, call) == call \in page.down

\* dict.get on the answers of the engine
Answer(answers, key, default) ==
    IF key \in DOMAIN answers THEN answers[key] ELSE default

\* the nodes of the page's document: those the engine hands out
Holds(page, node_id) ==
    \/ \E k \in DOMAIN page.selector_map :
          page.selector_map[k].node.backend_node_id = node_id
    \/ \E k \in DOMAIN page.query_selector : page.query_selector[k] = node_id
    \/ \E k \in DOMAIN page.search : page.search[k] = node_id
    \/ page.at_point.node.backend_node_id = node_id

\* DOM.describeNode(nodeId): describe_result.get("node", {}).get(
\* "backendNodeId"), nothing for a node the document does not hold
Describe(page, node_id) == IF Holds(page, node_id) THEN node_id ELSE 0

\* The strategies take `at`: at[i] is the live page as it is when the i-th
\* engine call of the strategy is answered.

\* a plausible slip: the index the engine answers is looked up with
\* selector_map.get(idx), without the test `idx in selector_map`
ByIdUnchecked(fp, at) ==
    LET q1 == <<Query(1, "get_index_by_id")>>
        q2 == q1 \o <<Query(1, "get_selector_map")>>
        index == Answer(at[1].index_by_id, fp.id, NoneNum)
        hits == {k \in DOMAIN at[2].selector_map :
                    at[2].selector_map[k].index = index}
    IN  IF ~TruthyStr(fp.id) THEN Outcome(NoMatch, <<>>, FALSE)
        ELSE IF Down(at[1], "get_index_by_id")
             THEN Outcome(NoMatch, q1, FALSE)
        ELSE IF index = NoneNum THEN Outcome(NoMatch, q1, FALSE)
        ELSE IF Down(at[2], "get_selector_map")
             THEN Outcome(NoMatch, q2, FALSE)
        ELSE IF hits = {}
             THEN Outcome([index |-> index, node |-> NoNode], q2, FALSE)
        ELSE Outcome(Match(at[2].selector_map[Min(hits)]), q2, FALSE)

\* Strategy 1: browser_session.get_index_by_id, then the selector map
ById(fp, at) ==
    LET q1 == <<Query(1, "get_index_by_id")>>
        q2 == q1 \o <<Query(1, "get_selector_map")>>
        index == Answer(at[1].index_by_id, fp.id, NoneNum)
    IN  IF ~TruthyStr(fp.id) THEN Outcome(NoMatch, <<>>, FALSE)
        ELSE IF Down(at[1], "get_index_by_id")
             THEN Outcome(NoMatch, q1, FALSE)
        ELSE IF index = NoneNum THEN Outcome(NoMatch, q1, FALSE)
        ELSE IF Down(at[2], "get_selector_map")
             THEN Outcome(NoMatch, q2, FALSE)
        ELSE Outcome(FirstEntry(at[2].selector_map,
        {k \in DOMAIN at[2].selector_map : LET e == at[2].selector_map[k] IN
            e.index = index}), q2, FALSE)

\* Strategy 2: _find_by_css_selector: the CDP session, DOM.getDocument,
\* DOM.querySelector, DOM.describeNode, then the selector map, all inside
\* one try block: a call that raises ends the strategy; the page has a
\* document root
ByCssSelector(fp, at) ==
    LET q1 == <<Query(2, "get_or_create_cdp_session")>>
        q2 == q1 \o <<Query(2, "DOM.getDocument")>>
        q3 == q2 \o <<Query(2, "DOM.querySelector")>>
        q4 == q3 \o <<Query(2, "DOM.describeNode")>>
        q5 == q4 \o <<Query(2, "get_selector_map")>>
        node_id == Answer(at[3].query_selector, fp.css_selector, 0)
        backend_node_id == Describe(at[4], node_id)
    IN  IF ~TruthyStr(fp.css_selector) THEN Outcome(NoMatch, <<>>, FALSE)
        ELSE IF Down(at[1], "get_or_create_cdp_session")
             THEN Outcome(NoMatch, q1, FALSE)
        ELSE IF Down(at[2], "DOM.getDocument")
             THEN Outcome(NoMatch, q2, FALSE)
        ELSE IF Down(at[3], "DOM.querySelector")
             THEN Outcome(NoMatch, q3, FALSE)
        ELSE IF node_id = 0 THEN Outcome(NoMatch, q3, FALSE)
        ELSE IF Down(at[4], "DOM.describeNode")
             THEN Outcome(NoMatch, q4, FALSE)
        ELSE IF backend_node_id = 0 THEN Outcome(NoMatch, q4, FALSE)
        ELSE IF Down(at[5], "get_selector_map")
             THEN Outcome(NoMatch, q5, FALSE)
        ELSE Outcome(ByBackendId(at[5].selector_map, backend_node_id), q5,
                     FALSE)

\* Strategy 3: _find_by_stable_hash: scan of the selector map
ByStableHash(fp, at) ==
    LET q1 == <<Query(3, "get_selector_map")>>
    IN  IF fp.stable_hash = NoneNum THEN Outcome(NoMatch, <<>>, FALSE)
        ELSE IF Down(at[1], "get_selector_map")
             THEN Outcome(NoMatch, q1, FALSE)
        ELSE Outcome(FirstEntry(at[1].selector_map,
        {k \in DOMAIN at[1].selector_map : LET e == at[1].selector_map[k] IN
            e.node.stable_hash = fp.stable_hash}),
                     q1, FALSE)

\* Strategy 4: _find_by_xpath: the CDP session, DOM.getDocument,
\* DOM.performSearch, DOM.getSearchResults (the results of the search as it
\* was performed), DOM.describeNode, the selector map: a call that raises
\* ends the strategy.  From DOM.getSearchResults on the calls stand in a
\* try/finally whose finally awaits DOM.discardSearchResults and swallows
\* what that call raises
ByXPath(fp, at) ==
    LET q1 == <<Query(4, "get_or_create_cdp_session")>>
        q2 == q1 \o <<Query(4, "DOM.getDocument")>>
        q3 == q2 \o <<Query(4, "DOM.performSearch")>>
        q4 == q3 \o <<Query(4, "DOM.getSearchResults")>>
        q5 == q4 \o <<Query(4, "DOM.describeNode")>>
        q6 == q5 \o <<Query(4, "get_selector_map")>>
        discard == <<Query(4, "DOM.discardSearchResults")>>
        node_id == Answer(at[3].search, fp.xpath, 0)
        backend_node_id == Describe(at[5], node_id)
    IN  IF ~TruthyStr(fp.xpath) THEN Outcome(NoMatch, <<>>, FALSE)
        ELSE IF Down(at[1], "get_or_create_cdp_session")
             THEN Outcome(NoMatch, q1, FALSE)
        ELSE IF Down(at[2], "DOM.getDocument")
             THEN Outcome(NoMatch, q2, FALSE)
        ELSE IF Down(at[3], "DOM.performSearch")
             THEN Outcome(NoMatch, q3, FALSE)
        ELSE IF node_id = 0 THEN Outcome(NoMatch, q3, FALSE)
        ELSE IF Down(at[4], "DOM.getSearchResults")
             THEN Outcome(NoMatch, q4 \o discard, FALSE)
        ELSE IF Down(at[5], "DOM.describeNode")
             THEN Outcome(NoMatch, q5 \o discard, FALSE)
        ELSE IF backend_node_id = 0
             THEN Outcome(NoMatch, q5 \o discard, FALSE)
        ELSE IF Down(at[6], "get_selector_map")
             THEN Outcome(NoMatch, q6 \o discard, FALSE)
        ELSE Outcome(ByBackendId(at[6].selector_map, backend_node_id),
                     q6 \o discard, FALSE)

\* _find_by_attribute(selector_map, attr_name, attr_value)
find_by_attribute(selector_map, attr_name, attr_value) ==
    FirstEntry(selector_map,
        {k \in DOMAIN selector_map : LET e == selector_map[k] IN
            AttrGet(e.node.attributes, attr_name) = attr_value})

\* _find_by_name_and_tag(selector_map, name, tag)
find_by_name_and_tag(selector_map, name, tag) ==
    FirstEntry(selector_map,
        {k \in DOMAIN selector_map : LET e == selector_map[k] IN
            /\ NodeTag(e.node) = Lower(tag)
            /\ AttrGet(e.node.attributes, "name") = name})

\* _find_by_tag_and_text(selector_map, tag, text)
find_by_tag_and_text(selector_map, tag, text) ==
    FirstEntry(selector_map,
        {k \in DOMAIN selector_map : LET e == selector_map[k] IN
            /\ NodeTag(e.node) = Lower(tag)
            /\ e.node.ax_node # NoAx
            /\ TruthyStr(e.node.ax_node.name)
            /\ IsSubstring(Lower(text), Lower(e.node.ax_node.name))})

\* a plausible slip: the placeholder is tried before the name
AttributeCriteriaPlaceholderFirst(fp, selector_map) ==
    << [tried |-> TruthyStr(fp.data_testid),
        match |-> find_by_attribute(selector_map, "data-testid",
                                    fp.data_testid)],
       [tried |-> TruthyStr(fp.aria_label),
        match |-> find_by_attribute(selector_map, "aria-label",
                                    fp.aria_label)],
       [tried |-> TruthyStr(fp.placeholder),
        match |-> find_by_attribute(selector_map, "placeholder",
                                    fp.placeholder)],
       [tried |-> TruthyStr(fp.name) /\ TruthyStr(fp.tag_name),
        match |-> find_by_name_and_tag(selector_map, fp.name, fp.tag_name)],
       [tried |-> TruthyStr(fp.href) /\ fp.tag_name = "a",
        match |-> find_by_attribute(selector_map, "href", fp.href)],
       [tried |-> TruthyStr(fp.text_content) /\ TruthyStr(fp.tag_name),
        match |-> find_by_tag_and_text(selector_map, fp.tag_name,
                                       fp.text_content)] >>

\* the criteria of strategy 5, in the order they are tried: whether the
\* fingerprint has the criterion, and the entry it finds
AttributeCriteria(fp, selector_map) ==
    << [tried |-> TruthyStr(fp.data_testid),
        match |-> find_by_attribute(selector_map, "data-testid",
                                    fp.data_testid)],
       [tried |-> TruthyStr(fp.aria_label),
        match |-> find_by_attribute(selector_map, "aria-label",
                                    fp.aria_label)],
       [tried |-> TruthyStr(fp.name) /\ TruthyStr(fp.tag_name),
        match |-> find_by_name_and_tag(selector_map, fp.name, fp.tag_name)],
       [tried |-> TruthyStr(fp.placeholder),
        match |-> find_by_attribute(selector_map, "placeholder",
                                    fp.placeholder)],
       [tried |-> TruthyStr(fp.href) /\ fp.tag_name = "a",
        match |-> find_by_attribute(selector_map, "href", fp.href)],
       [tried |-> TruthyStr(fp.text_content) /\ TruthyStr(fp.tag_name),
        match |-> find_by_tag_and_text(selector_map, fp.tag_name,
                                       fp.text_content)] >>

\* Strategy 5: the selector map is read outside every try block, then the
\* attribute criteria are tried in order
ByAttributes(fp, at) ==
    LET q1 == <<Query(5, "get_selector_map")>>
        criteria == AttributeCriteria(fp, at[1].selector_map)
        hits == {k \in DOMAIN criteria :
                    criteria[k].tried /\ criteria[k].match # NoMatch}
    IN  IF Down(at[1], "get_selector_map") THEN Outcome(NoMatch, q1, TRUE)
        ELSE IF at[1].selector_map = <<>> \/ hits = {}
             THEN Outcome(NoMatch, q1, FALSE)
        ELSE Outcome(criteria[Min(hits)].match, q1, FALSE)

\* a plausible slip: the corner of the box is asked for
CentreCorner(x, width) == x

\* int(x + (width or 0) / 2), for whole x and width
Centre(x, width) == x + (IF width = NoneNum THEN 0 ELSE width) \div 2

\* browser_session.get_dom_element_at_coordinates(x, y)
ElementAt(page, x, y) ==
    IF page.at_point.x = x /\ page.at_point.y = y
    THEN page.at_point.node ELSE NoNode

\* Strategy 6: the node at the centre of the recorded box, of the recorded
\* tag, found in the selector map
ByCoordinates(fp, at) ==
    LET q1 == <<Query(6, "get_dom_element_at_coordinates")>>
        q2 == q1 \o <<Query(6, "get_selector_map")>>
        n == ElementAt(at[1], Centre(fp.x, fp.width), Centre(fp.y, fp.height))
    IN  IF fp.x = NoneNum \/ fp.y = NoneNum THEN Outcome(NoMatch, <<>>, FALSE)
        ELSE IF Down(at[1], "get_dom_element_at_coordinates")
             THEN Outcome(NoMatch, q1, FALSE)
        ELSE IF n = NoNode THEN Outcome(NoMatch, q1, FALSE)
        ELSE IF TruthyStr(fp.tag_name) /\ NodeTag(n) # Lower(fp.tag_name)
             THEN Outcome(NoMatch, q1, FALSE)
        ELSE IF Down(at[2], "get_selector_map")
             THEN Outcome(NoMatch, q2, FALSE)
        ELSE Outcome(ByBackendId(at[2].selector_map, n.backend_node_id), q2,
                     FALSE)

\* the outcome of strategy k
Strategy(k, fp, at) ==
    CASE k = 1 -> ById(fp, at)
      [] k = 2 -> ByCssSelector(fp, at)
      [] k = 3 -> ByStableHash(fp, at)
      [] k = 4 -> ByXPath(fp, at)
      [] k = 5 -> ByAttributes(fp, at)
      [] k = 6 -> ByCoordinates(fp, at)

\* a plausible slip: the CSS selector is evaluated before the id
StrategyOrderCssFirst == <<2, 1, 3, 4, 5, 6>>

\* the order in which find_match tries its strategies
StrategyOrder == <<1, 2, 3, 4, 5, 6>>

\* the engine calls of the longest strategy (XPath)
LongestStrategy == 7

\* the pages that have answered the calls of a strategy so far; `page`
\* stands at the calls not answered yet
Answered(seen, page) ==
    [i \in 1..LongestStrategy |-> IF i <= Len(seen) THEN seen[i] ELSE page]

\* the page answers every engine call of a strategy
Still(page) == Answered(<<>>, page)

\* a find_match call at its first strategy: the place in the order, the
\* pages that have answered the calls of the strategy at hand, the engine
\* queries of the strategies behind it with the page that answered each, and
\* the times the page had changed when the call began
NewCall(n) ==
    [p |-> 1, seen |-> <<>>, queries |-> <<>>, pages |-> <<>>, from |-> n]

\* find_match runs on from the strategy at hand until it awaits an engine
\* call or returns: a strategy whose next engine call is not answered yet
\* waits; one that is over returns its match, lets its exception out, or
\* gives way to the next strategy
RECURSIVE Proceed(_, _, _)
Proceed(fp, c, page) ==
    IF c.p > Len(StrategyOrder)
    THEN [returns |-> TRUE, call |-> c, kind |-> "not found",
          match |-> NoMatch, strategy |-> 0]
    ELSE LET k == StrategyOrder[c.p]
             o == Strategy(k, fp, Answered(c.seen, page))
             behind == [c EXCEPT !.p = @ + 1, !.seen = <<>>,
                                 !.queries = @ \o o.queries,
                                 !.pages = @ \o c.seen]
         IN  IF Len(o.queries) > Len(c.seen)
             THEN [returns |-> FALSE, call |-> c, kind |-> "awaits",
                   match |-> NoMatch, strategy |-> k]
             ELSE IF o.raised
             THEN [returns |-> TRUE, call |-> behind, kind |-> "raised",
                   match |-> NoMatch, strategy |-> k]
             ELSE IF o.match # NoMatch
             THEN [returns |-> TRUE, call |-> behind, kind |-> "found",
                   match |-> o.match, strategy |-> k]
             ELSE Proceed(fp, behind, page)

\* ElementMatcher.find_match(fingerprint, browser_session) up to its first
\* await
find_match(fp, page, n) ==
    IF fp = NoFingerprint
    THEN [returns |-> TRUE, call |-> NewCall(n), kind |-> "not found",
          match |-> NoMatch, strategy |-> 0]
    ELSE Proceed(fp, NewCall(n), page)

\* the fields each strategy reads
StrategyFields ==
    [id |-> {"id"}, css |-> {"css_selector"}, hash |-> {"stable_hash"},
     xpath |-> {"xpath"},
     attributes |-> {"data_testid", "aria_label", "name", "placeholder",
                     "href", "text_content"},
     coordinates |-> {"x", "y", "width", "height"}]

\* FpFull with only the fields of the strategies in K recorded
Recording(K) ==
    LET kept == UNION {StrategyFields[k] : k \in K} \cup
                    {"backend_node_id", "role", "tag_name", "classes",
                     "recorded_index"}
    IN  [f \in DOMAIN FpFull |->
            IF f \in kept THEN FpFull[f] ELSE ElementFingerprint[f]]

\* the fingerprints looked up
MatchFingerprints == {Recording(K) : K \in SUBSET DOMAIN StrategyFields}

\* the selector maps of the live page
SelectorMaps ==
    { <<>>,
      <<[index |-> 0, node |-> LoginNode]>>,
      <<[index |-> 0, node |-> TwinNode]>>,
      <<[index |-> 0, node |-> LoginNode], [index |-> 1, node |-> TwinNode]>>,
      <<[index |-> 0, node |-> TwinNode], [index |-> 1, node |-> LoginNode]>> }

\* the engine calls find_match and its helpers await; each may raise
EngineCalls ==
    {"get_index_by_id", "get_or_create_cdp_session", "DOM.getDocument",
     "DOM.querySelector", "DOM.describeNode", "DOM.performSearch",
     "DOM.getSearchResults", "DOM.discardSearchResults", "get_selector_map",
     "get_dom_element_at_coordinates"}

\* the live pages with every engine call answering
LivePages ==
    [selector_map : SelectorMaps,
     index_by_id : {[k \in {} |-> 0], "uid" :> 0, "uid" :> 1, "uid" :> 5},
     query_selector : {[k \in {} |-> 0], "#login" :> 12, "#login" :> 30,
                       "#login" :> 99},
     search : {[k \in {} |-> 0], "html/body/input" :> 30},
     at_point : {[x |-> 12, y |-> 1, node |-> LoginNode],
                 [x |-> 0, y |-> 0, node |-> LoginNode]},
     down : {{}}]

\* a link of the live page that carries the one attribute given, and the
\* accessible name given
LinkNode(backend_node_id, attributes, name) ==
    [backend_node_id |-> backend_node_id, tag_name |-> "a",
     attributes |-> attributes,
     ax_node |-> IF name = None THEN NoAx
                 ELSE [name |-> name, description |-> None, role |-> "link"],
     css_selector |-> None, xpath |-> None, stable_hash |-> backend_node_id,
     absolute_position |-> NoPos]

\* six links, each answering one criterion of the attribute strategy
CriterionNodes ==
    << LinkNode(41, "data-testid" :> "go-link", None),
       LinkNode(42, "aria-label" :> "go there", None),
       LinkNode(43, "name" :> "go", None),
       LinkNode(44, "placeholder" :> "where", None),
       LinkNode(45, "href" :> "/there", None),
       LinkNode(46, "title" :> "t", "click to go on") >>

\* the fingerprint of a link (tag as recorded) with the criteria in K recorded
LinkFingerprint(tag, K) ==
    [ElementFingerprint EXCEPT
        !.tag_name = tag,
        !.data_testid = IF 1 \in K THEN "go-link" ELSE None,
        !.aria_label = IF 2 \in K THEN "go there" ELSE "",
        !.name = IF 3 \in K THEN "go" ELSE None,
        !.placeholder = IF 4 \in K THEN "where" ELSE None,
        !.href = IF 5 \in K THEN "/there" ELSE None,
        !.text_content = IF 6 \in K THEN "Go On" ELSE None]

\* a fingerprint with attribute criteria only is looked up on a page of one
\* or two of the six links, in either order
InitMatcherAttributes ==
    /\ \E tag \in {"a", "A", "area"}, K \in SUBSET (1..6) :
          fingerprint = LinkFingerprint(tag, K)
    /\ \E m, n \in 1..6 :
          LET entries == IF m = n THEN <<CriterionNodes[m]>>
                         ELSE <<CriterionNodes[m], CriterionNodes[n]>>
          IN  live = [selector_map |->
                          [k \in DOMAIN entries |->
                              [index |-> k + 2, node |-> entries[k]]],
                      index_by_id |-> [k \in {} |-> 0],
                      query_selector |-> [k \in {} |-> 0],
                      search |-> [k \in {} |-> 0],
                      at_point |-> [x |-> 0, y |-> 0, node |-> LoginNode],
                      down |-> {}]

\* nodes of the live page that are no links and carry the href of a link
HrefNodes ==
    << [LinkNode(47, "href" :> "/there", None) EXCEPT !.tag_name = "area"],
       [LinkNode(48, "href" :> "/there", None) EXCEPT !.tag_name = "link"] >>

\* the fingerprint of a link with its href (and its text, or not) is looked
\* up on a page that holds an area or a link element with the same href,
\* alone or next to the link itself
InitMatcherHref ==
    /\ \E K \in {{5}, {5, 6}} : fingerprint = LinkFingerprint("a", K)
    /\ \E h \in DOMAIN HrefNodes :
       \E entries \in {<<HrefNodes[h]>>,
                        <<HrefNodes[h], CriterionNodes[5]>>,
                        <<CriterionNodes[5], HrefNodes[h]>>} :
          live = [selector_map |->
                      [k \in DOMAIN entries |->
                          [index |-> k + 2, node |-> entries[k]]],
                  index_by_id |-> [k \in {} |-> 0],
                  query_selector |-> [k \in {} |-> 0],
                  search |-> [k \in {} |-> 0],
                  at_point |-> [x |-> 0, y |-> 0, node |-> LoginNode],
                  down |-> {}]

\* the tags a fingerprint may record, the empty ones among them
RecordedTags == {"input", "INPUT", "a", None, ""}

\* the sizes of the recorded box: even, odd, not captured, empty
RecordedBoxes ==
    { [width |-> 4, height |-> 2], [width |-> 5, height |-> 3],
      [width |-> NoneNum, height |-> NoneNum], [width |-> 0, height |-> 0] }

\* a fingerprint with its tag and its box only is looked up on a page that
\* renders an input or a link at the centre or at the corner of the box; the
\* link is not in the selector map
InitMatcherCoordinates ==
    /\ \E tag \in RecordedTags, box \in RecordedBoxes :
          fingerprint = [ElementFingerprint EXCEPT
                            !.tag_name = tag, !.x = 10, !.y = 0,
                            !.width = box.width, !.height = box.height]
    /\ \E map \in SelectorMaps, corner \in BOOLEAN,
          n \in {LoginNode, TwinNode, CriterionNodes[5]} :
          live = [selector_map |-> map,
                  index_by_id |-> [k \in {} |-> 0],
                  query_selector |-> [k \in {} |-> 0],
                  search |-> [k \in {} |-> 0],
                  at_point |-> IF corner THEN [x |-> 10, y |-> 0, node |-> n]
                               ELSE [x |-> 12, y |-> 1, node |-> n],
                  down |-> {}]

\* the pages of a site that changes under the matcher: the login form at
\* index 4, the same form with another input in its place and no id, and
\* both inputs side by side
ChangingPages ==
    { [selector_map |-> <<[index |-> 4, node |-> LoginNode]>>,
       index_by_id |-> "uid" :> 4,
       query_selector |-> "#login" :> 12,
       search |-> "html/body/input" :> 12,
       at_point |-> [x |-> 12, y |-> 1, node |-> LoginNode],
       down |-> {}],
      [selector_map |-> <<[index |-> 4, node |-> TwinNode]>>,
       index_by_id |-> [k \in {} |-> 0],
       query_selector |-> [k \in {} |-> 0],
       search |-> [k \in {} |-> 0],
       at_point |-> [x |-> 12, y |-> 1, node |-> TwinNode],
       down |-> {}],
      [selector_map |-> <<[index |-> 4, node |-> TwinNode],
                          [index |-> 5, node |-> LoginNode]>>,
       index_by_id |-> "uid" :> 5,
       query_selector |-> "#login" :> 12,
       search |-> "html/body/input" :> 30,
       at_point |-> [x |-> 12, y |-> 1, node |-> LoginNode],
       down |-> {}] }

\* the fingerprints looked up on the changing site
ChangingFingerprints ==
    { FpFull, Recording({"id", "hash"}), Recording({"css", "xpath"}),
      Recording({"coordinates"}) }

\* a fingerprint is looked up on a page that another task may change
InitMatcherChanging ==
    /\ fingerprint \in ChangingFingerprints
    /\ live \in ChangingPages

\* FpFull, or the fingerprint with the CSS selector and the XPath only, is
\* looked up on a page of which one engine call raises
InitMatcherDown ==
    /\ fingerprint \in {FpFull, Recording({"css", "xpath"})}
    /\ \E page \in LivePages, call \in EngineCalls :
          live = [page EXCEPT !.down = {call}]

InitMatcher ==
    /\ \/ /\ fingerprint \in MatchFingerprints \cup {NoFingerprint}
          /\ live \in LivePages
       \/ InitMatcherDown
       \/ InitMatcherAttributes
       \/ InitMatcherHref
       \/ InitMatcherCoordinates
       \/ InitMatcherChanging
    /\ finds = <<>>
    /\ matching = NoCall
    /\ changes = 0
    /\ session = RecordedSession("s1", "0.11.2", <<>>)
    /\ PersistIdle
    /\ ReplayIdle
    /\ RecorderIdle
    /\ PairIdle
    /\ StreamIdle

\* a plausible slip: the matched entry is popped from the session's map
LiveAfterFindPopping(page, found) ==
    IF found.kind # "found" THEN page
    ELSE [page EXCEPT !.selector_map =
             SelectSeq(@, LAMBDA e : e.index # found.match.index)]

\* the live session after a find_match call: the matcher is a set of
\* classmethods without attributes, and it only reads the selector map the
\* session hands out (`idx in selector_map`, `selector_map.items()`)
LiveAfterFind(page, found) == page

\* what a call has returned, with the engine queries it issued, the page
\* that answered each, and the times the page had changed when the call
\* began and when it ended
Found(step) ==
    [kind |-> step.kind, match |-> step.match, strategy |-> step.strategy,
     queries |-> step.call.queries, pages |-> step.call.pages,
     from |-> step.call.from, until |-> changes]

\* the call returns, or stays suspended at its engine call
Goes(step) ==
    IF step.returns
    THEN /\ finds' = Append(finds, Found(step))
         /\ live' = LiveAfterFind(live, Found(step))
         /\ matching' = NoCall
    ELSE /\ matching' = step.call
         /\ UNCHANGED <<finds, live>>

\* await ElementMatcher.find_match(fingerprint, browser_session) is entered:
\* the call runs to its first engine call (or returns None for no
\* fingerprint)
FindMatch ==
    /\ live # NoLive
    /\ matching = NoCall
    /\ Len(finds) < MaxFinds
    /\ Goes(find_match(fingerprint, live, changes))
    /\ UNCHANGED <<fingerprint, changes>>
    /\ UNCHANGED outsideMatcher

\* the engine call the matcher awaits is answered by the page as it is now;
\* the call runs on to its next engine call, or returns
EngineAnswers ==
    /\ matching # NoCall
    /\ Goes(Proceed(fingerprint,
                    [matching EXCEPT !.seen = Append(@, live)], live))
    /\ UNCHANGED <<fingerprint, changes>>
    /\ UNCHANGED outsideMatcher

\* another task of the event loop navigates the browser, or the page's own
\* script rebuilds it: the engine has other answers from now on
PageChanges ==
    /\ live \in ChangingPages
    /\ changes < MaxChanges
    /\ \E page \in ChangingPages \ {live} : live' = page
    /\ changes' = changes + 1
    /\ UNCHANGED <<fingerprint, finds, matching>>
    /\ UNCHANGED outsideMatcher

NextMatcher ==
    \/ FindMatch
    \/ EngineAnswers
    \/ PageChanges

SpecMatcher == InitMatcher /\ [][NextMatcher]_vars

----------------------------------------------------------------------------
(* Claims about the matcher *)

\* what strategy k alone yields for the fingerprint on the live page
Yield(k) == Strategy(k, fingerprint, Still(live)).match

\* every engine call of find_match call c was answered by the page now live
Settled(c) ==
    \A q \in DOMAIN finds[c].pages : finds[c].pages[q] = live

\* the pages that answered the engine calls strategy k made in the call
\* that returned r
PagesOf(r, k) ==
    LET made == {q \in DOMAIN r.queries : r.queries[q].strategy = k}
    IN  IF made = {} THEN <<>>
        ELSE [i \in 1..Cardinality(made) |-> r.pages[Min(made) + i - 1]]

\* what strategy k yielded in the call that returned r, from the answers it
\* got
YieldIn(r, k) ==
    Strategy(k, fingerprint, Answered(PagesOf(r, k), live)).match

\* C11: find_match tries id, CSS selector, stable hash, XPath, attributes,
\* coordinates in this order and returns the node of the first strategy that
\* yields one, with no engine query of a later strategy; when the id and the
\* CSS selector resolve to different live nodes, the id-matched node is
\* returned.
C11_FirstStrategyWins ==
    \A c \in DOMAIN finds :
        LET r == finds[c] IN
        IF fingerprint = NoFingerprint
        THEN r.kind = "not found" /\ r.queries = <<>>
        ELSE
        /\ r.kind = "found" =>
              /\ r.strategy \in 1..6
              /\ r.match = YieldIn(r, r.strategy)
              /\ \A j \in 1..(r.strategy - 1) : YieldIn(r, j) = NoMatch
              /\ \A q \in DOMAIN r.queries :
                    r.queries[q].strategy <= r.strategy
        /\ \A q \in DOMAIN r.queries :
              q > 1 => r.queries[q - 1].strategy <= r.queries[q].strategy
        /\ r.kind = "not found" => \A j \in 1..6 : YieldIn(r, j) = NoMatch
        /\ (Settled(c) /\ Yield(1) # NoMatch /\ Yield(2) # NoMatch) =>
              /\ r.kind = "found"
              /\ r.match = Yield(1)

\* the id and the CSS selector resolve to different live nodes, the id's node
\* has been returned and only the id strategy has queried the engine
C11_Witness ==
    /\ finds # <<>>
    /\ fingerprint # NoFingerprint
    /\ Settled(1)
    /\ Yield(1) # NoMatch
    /\ Yield(2) # NoMatch
    /\ Yield(1).node # Yield(2).node
    /\ finds[1].match = Yield(1)
    /\ finds[1].queries = <<Query(1, "get_index_by_id"),
                            Query(1, "get_selector_map")>>

\* C28: find_match returns not-found instead of raising whenever no strategy
\* yields a node, including when engine queries (id lookup, CDP calls,
\* selector-map read, coordinate lookup) throw; so an engine error during
\* one attempt is a failed attempt and does not cut short the replayer's
\* 5-attempt retry loop.
C28_NeverRaises ==
    \A c \in DOMAIN finds : finds[c].kind # "raised"

\* the fingerprint records criterion c of the attribute strategy; the href
\* criterion counts for every tag, or for the recorded tag "a" only
Records(c, links_only) ==
    CASE c = 1 -> TruthyStr(fingerprint.data_testid)
      [] c = 2 -> TruthyStr(fingerprint.aria_label)
      [] c = 3 -> TruthyStr(fingerprint.name)
                      /\ TruthyStr(fingerprint.tag_name)
      [] c = 4 -> TruthyStr(fingerprint.placeholder)
      [] c = 5 -> /\ TruthyStr(fingerprint.href)
                  /\ links_only => fingerprint.tag_name = "a"
      [] c = 6 -> TruthyStr(fingerprint.text_content)
                      /\ TruthyStr(fingerprint.tag_name)

\* the live node n answers criterion c of the fingerprint
Answers(c, n) ==
    LET same_tag == Lower(n.tag_name) = Lower(fingerprint.tag_name)
        attr(key) == AttrGet(n.attributes, key)
    IN  CASE c = 1 -> attr("data-testid") = fingerprint.data_testid
          [] c = 2 -> attr("aria-label") = fingerprint.aria_label
          [] c = 3 -> same_tag /\ attr("name") = fingerprint.name
          [] c = 4 -> attr("placeholder") = fingerprint.placeholder
          [] c = 5 -> attr("href") = fingerprint.href
          [] c = 6 -> /\ same_tag
                      /\ n.ax_node # NoAx
                      /\ TruthyStr(n.ax_node.name)
                      /\ IsSubstring(Lower(fingerprint.text_content),
                                     Lower(n.ax_node.name))

\* the entries of the selector map that answer a recorded criterion c
HitsOf(c, links_only) ==
    IF ~Records(c, links_only) THEN {}
    ELSE {k \in DOMAIN live.selector_map :
             Answers(c, live.selector_map[k].node)}

\* what the attribute strategy is to return: the first entry answering the
\* first recorded criterion that any entry answers
AttributeMatch(links_only) ==
    LET hit == {c \in 1..6 : HitsOf(c, links_only) # {}}
    IN  IF hit = {} THEN NoMatch
        ELSE Match(live.selector_map[Min(HitsOf(Min(hit), links_only))])

\* find_match has come to the attribute strategy and read the selector map
AttributeStrategyRuns ==
    /\ fingerprint # NoFingerprint
    /\ live # NoLive
    /\ \A j \in 1..4 : Yield(j) = NoMatch
    /\ ~Down(live, "get_selector_map")

\* every find_match call made has returned what the attribute strategy is
\* to return, or has gone past the strategy when that is nothing
ReturnsAttributeMatch(links_only) ==
    \A c \in DOMAIN finds :
        Settled(c) =>
        IF AttributeMatch(links_only) # NoMatch
        THEN /\ finds[c].kind = "found"
             /\ finds[c].strategy = 5
             /\ finds[c].match = AttributeMatch(links_only)
        ELSE finds[c].strategy # 5

\* C30 as claimed: within the attribute strategy, find_match tries, in this
\* order and stopping at the first hit: exact data-testid, exact aria-label,
\* exact name on a node of the recorded tag, exact placeholder, exact href,
\* then recorded tag plus case-insensitive substring match of the recorded
\* text in the node's accessible name; a criterion whose fingerprint field is
\* empty is skipped.
C30_AsClaimed ==
    AttributeStrategyRuns => ReturnsAttributeMatch(FALSE)

\* C30 (amended): within the attribute strategy, find_match tries, in this
\* order and stopping at the first hit: exact data-testid, exact aria-label,
\* exact name on a node of the recorded tag, exact placeholder, exact href
\* when the recorded tag is exactly "a", then recorded tag plus
\* case-insensitive substring match of the recorded text in the node's
\* accessible name; a criterion whose fingerprint field is empty is skipped,
\* and so is the href of a fingerprint whose recorded tag is not "a".
C30_AttributeOrder ==
    AttributeStrategyRuns => ReturnsAttributeMatch(TRUE)

\* the href of a link won over its text: the entry found is the second of
\* the map, the first one answers the text criterion only
C30_Witness ==
    /\ finds # <<>>
    /\ AttributeStrategyRuns
    /\ fingerprint.tag_name = "a"
    /\ Records(1, TRUE) /\ HitsOf(1, TRUE) = {}
    /\ ~Records(2, TRUE)
    /\ HitsOf(5, TRUE) = {2}
    /\ HitsOf(6, TRUE) = {1}
    /\ finds[1].strategy = 5
    /\ finds[1].match = Match(live.selector_map[2])

\* find_match call c has returned the entry its href criterion found: no
\* earlier strategy and no earlier criterion of the attribute strategy
\* yields a node, and the map holds an entry with the recorded href
ReturnedByHref(c) ==
    /\ AttributeStrategyRuns
    /\ Settled(c)
    /\ \A j \in 1..4 : HitsOf(j, TRUE) = {}
    /\ HitsOf(5, TRUE) # {}
    /\ finds[c].kind = "found"
    /\ finds[c].strategy = 5

\* C31: the href attribute strategy returns only a live node whose tag is a:
\* a live node that carries an equal href attribute but has a different tag
\* (for example link or area) is never returned by that strategy.
C31_HrefReturnsLinksOnly ==
    \A c \in DOMAIN finds :
        ReturnedByHref(c) => NodeTag(finds[c].match.node) = "a"

\* p is the whole-pixel centre of the recorded box along one axis: the
\* integer part of x + (width or 0) / 2
IsCentre(p, x, width) ==
    LET w == IF width = NoneNum THEN 0 ELSE width
    IN  2 * (p - x) <= w /\ w < 2 * (p - x) + 2

\* the page renders a node at the centre of the recorded box
RendersAtCentre ==
    /\ IsCentre(live.at_point.x, fingerprint.x, fingerprint.width)
    /\ IsCentre(live.at_point.y, fingerprint.y, fingerprint.height)

\* the node the page renders has the recorded tag, or no tag is recorded
TagAccepted ==
    \/ fingerprint.tag_name \in {None, ""}
    \/ Lower(live.at_point.node.tag_name) = Lower(fingerprint.tag_name)

\* find_match call c has asked the engine for the node at a point
AskedAtPoint(c) ==
    \E q \in DOMAIN finds[c].queries :
        finds[c].queries[q] = Query(6, "get_dom_element_at_coordinates")

\* C32: the coordinate strategy asks the engine for the node at the centre
\* (x + width/2, y + height/2, in whole pixels) of the recorded box and
\* returns a node only if that node's tag equals the fingerprint's recorded
\* tag (case-insensitively) or the fingerprint records no tag; a node with a
\* different tag is rejected and find_match returns not-found.
C32_CoordinateTagCheck ==
    \A c \in DOMAIN finds :
        (fingerprint # NoFingerprint /\ Settled(c)) =>
            /\ finds[c].strategy = 6 =>
                  /\ AskedAtPoint(c)
                  /\ RendersAtCentre
                  /\ TagAccepted
                  /\ finds[c].match.node.backend_node_id =
                         live.at_point.node.backend_node_id
            /\ (AskedAtPoint(c) /\ ~(RendersAtCentre /\ TagAccepted)) =>
                  finds[c].kind = "not found"

\* an INPUT rendered at the centre of an odd-sized box was returned for the
\* recorded tag input
C32_Witness ==
    /\ finds # <<>>
    /\ finds[1].strategy = 6
    /\ fingerprint.tag_name = "input"
    /\ fingerprint.width = 5
    /\ live.at_point.node.tag_name = "INPUT"
    /\ finds[1].match.node = live.at_point.node

\* the entries of the live selector map that hold the node the engine
\* hands out under backend node id b
EntriesOf(b) ==
    {p \in DOMAIN live.selector_map :
        live.selector_map[p].node.backend_node_id = b}

\* the entries of the live selector map that strategy k points at for the
\* fingerprint, on a page whose engine calls all answer: the entry at the
\* index the engine gives for the id, the entries of the node the engine
\* gives for the CSS selector or the XPath, the entries with the recorded
\* stable hash, the entries answering the first attribute criterion that
\* any entry answers, the entries of the node rendered at the centre of the
\* recorded box when its tag is accepted
PointedAt(k) ==
    LET map == live.selector_map
        hit == {c \in 1..6 : HitsOf(c, TRUE) # {}}
    IN  CASE k = 1 ->
               IF /\ TruthyStr(fingerprint.id)
                  /\ fingerprint.id \in DOMAIN live.index_by_id
               THEN {p \in DOMAIN map :
                       map[p].index = live.index_by_id[fingerprint.id]}
               ELSE {}
          [] k = 2 ->
               IF /\ TruthyStr(fingerprint.css_selector)
                  /\ fingerprint.css_selector \in DOMAIN live.query_selector
               THEN EntriesOf(live.query_selector[fingerprint.css_selector])
               ELSE {}
          [] k = 3 ->
               IF fingerprint.stable_hash # NoneNum
               THEN {p \in DOMAIN map :
                       map[p].node.stable_hash = fingerprint.stable_hash}
               ELSE {}
          [] k = 4 ->
               IF /\ TruthyStr(fingerprint.xpath)
                  /\ fingerprint.xpath \in DOMAIN live.search
               THEN EntriesOf(live.search[fingerprint.xpath])
               ELSE {}
          [] k = 5 -> IF hit = {} THEN {} ELSE HitsOf(Min(hit), TRUE)
          [] k = 6 ->
               IF /\ fingerprint.x # NoneNum
                  /\ fingerprint.y # NoneNum
                  /\ RendersAtCentre
                  /\ TagAccepted
               THEN EntriesOf(live.at_point.node.backend_node_id)
               ELSE {}

\* what the fingerprint resolves to on the live page, whenever it is looked
\* up: the first entry, in the order of the selector map, that the first
\* strategy pointing at an entry points at
Resolution ==
    LET by == {k \in 1..6 : PointedAt(k) # {}}
    IN  IF fingerprint = NoFingerprint \/ by = {} THEN NoMatch
        ELSE Match(live.selector_map[Min(PointedAt(Min(by)))])

\* C23: for a live session whose DOM does not change (same selector map,
\* same answers to every engine query), two successive find_match calls with
\* the same fingerprint return the same (index, node), or both return
\* not-found.  The DOM does not change when no other task changes the page
\* from the start of the first call to the end of the second, or when one
\* page, the page now live, has answered every engine call of both.  What a
\* call returns is then fixed by the fingerprint and the page alone: on a
\* page whose engine calls all answer it is the entry the fingerprint
\* resolves to, or not-found when it resolves to none.
C23_SameAnswerTwice ==
    /\ \A c, d \in DOMAIN finds :
          (/\ c < d
           /\ \/ finds[c].from = finds[d].until
              \/ Settled(c) /\ Settled(d))
          => /\ finds[c].kind = finds[d].kind
             /\ finds[c].match = finds[d].match
    /\ \A c \in DOMAIN finds :
          (Settled(c) /\ live.down = {})
          => /\ finds[c].match = Resolution
             /\ finds[c].kind = IF Resolution = NoMatch THEN "not found"
                                ELSE "found"

\* the same fingerprint was looked up twice on a page with two candidate
\* nodes, both answering the attribute criterion that won: the attribute
\* scan returned the same entry, the first of the two, both times
C23_Witness ==
    /\ Len(finds) = 2
    /\ finds[1].from = finds[2].until
    /\ Len(live.selector_map) = 2
    /\ finds[1].kind = "found"
    /\ finds[1].strategy = 5
    /\ Cardinality(PointedAt(5)) = 2
    /\ finds[2].match = finds[1].match
    /\ finds[2].match = Resolution
    /\ finds[2].match.node = TwinNode

\* the (index, node) pairs that are addressable on a page
Addressable(page) ==
    {Match(page.selector_map[k]) : k \in DOMAIN page.selector_map}

\* the page that answered the last selector-map read of the call that
\* returned r
MapRead(r) ==
    LET reads == {q \in DOMAIN r.queries :
                     r.queries[q].call = "get_selector_map"}
    IN  r.pages[CHOOSE q \in reads : \A p \in reads : p <= q]

\* C33: every (index, node) that find_match returns, by whichever strategy,
\* is an entry of the live session's selector map as read during that call
\* (selector_map[index] is node): a node that the engine resolves by id, CSS
\* selector, XPath or coordinates but that is not currently addressable is
\* never returned.
C33_ReturnsAddressable ==
    \A c \in DOMAIN finds :
        /\ finds[c].kind = "found" <=> finds[c].match # NoMatch
        /\ finds[c].kind = "found" =>
              finds[c].match \in Addressable(MapRead(finds[c]))

\* the engine resolves the recorded id to an index and the recorded CSS
\* selector to a node that are not in the selector map; find_match has
\* passed both over and returned an entry of the map by a later strategy
C33_Witness ==
    /\ finds # <<>>
    /\ fingerprint # NoFingerprint
    /\ TruthyStr(fingerprint.id)
    /\ TruthyStr(fingerprint.css_selector)
    /\ Answer(live.index_by_id, fingerprint.id, NoneNum) = 5
    /\ Answer(live.query_selector, fingerprint.css_selector, 0) = 99
    /\ finds[1].kind = "found"
    /\ finds[1].strategy > 2
    /\ Settled(1)
    /\ finds[1].match \in Addressable(live)

----------------------------------------------------------------------------
(* Two replay() calls on one RecordedSession, each on its own live session *)

\* the two calls
Runs == {1, 2}

\* a plausible slip: the counters are attributes of the replayer, which the
\* two calls share
FrameOnReplayer(r) == 1

\* the frame holding the locals succeeded, failed, failed_steps and errors
\* of call r: each call of replay() has its own
Frame(r) == r

\* succeeded = 0; failed = 0; failed_steps = []; errors = []
NewFrame == [succeeded |-> 0, failed |-> 0, failed_steps |-> <<>>,
             errors |-> <<>>]

\* a call of replay() before its loop; `outcomes` is what the call's live
\* session has answered, action by action
NewRun(stop, data) ==
    [stop_on_failure |-> stop, sensitive_data |-> data,
     pc |-> IF Len(session.actions) = 0 THEN "return" ELSE "start",
     idx |-> 0, attempt |-> 0, node |-> None, exc |-> None,
     result |-> NoResult, commands |-> <<>>, outcomes |-> <<>>]

\* the action needs its element resolved on the live session
Resolves(a) ==
    \/ a.action_type \in ResolvingTypes
    \/ a.action_type = "SCROLL" /\ a.element # NoFingerprint

\* the ways the element lookup of one action ends on a live session: a node
\* is returned, every attempt returns None, get_browser_state_summary raises,
\* find_match raises
Lookups ==
    {"found", "missing", "engine unreachable", "selector map unreadable"}

\* the exception _find_element ends with: its own ValueError after the last
\* attempt, or the exception of the live session, which it does not catch
LookupError(answer) ==
    IF answer = "missing" THEN "Could not find element" ELSE answer

\* the actions of the shared sessions: one that is dispatched at once, one
\* that resolves its element and substitutes a secret, and a click recorded
\* without a fingerprint
PairActions ==
    LET A(t) == RecordedAction(t, "t1") IN
    { [A("NAVIGATE") EXCEPT !.url = "http://a"],
      [A("TYPE") EXCEPT !.element = FpFull, !.text = Marker,
                        !.is_sensitive = TRUE],
      A("CLICK") }

InitPair ==
    /\ \E actions \in SeqUpTo(PairActions, MaxShared) :
          session = RecordedSession("s1", "0.11.2", Numbered(actions, 0))
    /\ \E stop1, stop2 \in BOOLEAN :
          runs = <<NewRun(stop1, SecretOf), NewRun(stop2, [k \in {} |-> ""])>>
    /\ frames = [f \in Runs |-> NewFrame]
    /\ overlap = FALSE
    /\ PersistIdle
    /\ ReplayIdle
    /\ RecorderIdle
    /\ MatcherIdle
    /\ StreamIdle

\* both calls are between their first action and their return
Overlapping(rs) ==
    \A r \in Runs : rs[r].idx >= 1 /\ rs[r].pc \notin {"return", "done"}

\* the loop of call r is over after the last action or after a break
PairAfterAction(r, break) ==
    IF break \/ runs[r].idx = Len(session.actions) THEN "return" ELSE "start"

\* on_step_start(step, action), then _execute_action up to its first await
PairStart(r) ==
    /\ runs[r].pc = "start"
    /\ runs[r].idx < Len(session.actions)
    /\ LET a == session.actions[runs[r].idx + 1]
           unresolvable == a.action_type \in ResolvingTypes
                               /\ a.element = NoFingerprint
       IN  runs' = [runs EXCEPT
              ![r].idx = @ + 1,
              ![r].attempt = 0,
              ![r].node = None,
              ![r].commands = Append(@, [op |-> "on_step_start",
                                         arg |-> a.step_number]),
              ![r].outcomes = Append(@, [lookup |-> None,
                                         dispatch |-> None]),
              ![r].exc = IF unresolvable
                         THEN "No element fingerprint provided" ELSE @,
              ![r].pc = IF unresolvable THEN "except"
                        ELSE IF Resolves(a) THEN "refresh" ELSE "dispatch"]
    /\ overlap' = (overlap \/ Overlapping(runs'))
    /\ UNCHANGED frames
    /\ UNCHANGED outsidePair

\* _find_element of call r ends with `answer`: a node is returned to
\* _execute_action, or an exception leaves it; the scroll branch swallows the
\* exception and goes on without a node
PairLookupEnds(r, answer) ==
    LET a == session.actions[runs[r].idx]
        k == runs[r].idx
        goes_on == answer = "found" \/ a.action_type = "SCROLL"
    IN  runs' = [runs EXCEPT
           ![r].outcomes[k].lookup = answer,
           ![r].node = IF answer = "found" THEN "node-17" ELSE None,
           ![r].exc = IF goes_on THEN @ ELSE LookupError(answer),
           ![r].pc = IF goes_on THEN "dispatch" ELSE "except"]

\* await browser_session.get_browser_state_summary(cached=False) on the
\* call's own live session: it returns, or raises
PairRefresh(r) ==
    /\ runs[r].pc = "refresh"
    /\ \/ runs' = [runs EXCEPT ![r].pc = "match"]
       \/ PairLookupEnds(r, "engine unreachable")
    /\ overlap' = (overlap \/ Overlapping(runs'))
    /\ UNCHANGED frames
    /\ UNCHANGED outsidePair

\* await ElementMatcher.find_match(...) on the call's own live session: it
\* returns (idx, node), returns None (sleep next, or, after the last attempt,
\* ValueError("Could not find element matching ...")), or raises
PairMatch(r) ==
    /\ runs[r].pc = "match"
    /\ \/ PairLookupEnds(r, "found")
       \/ IF MayRetry(runs[r].attempt)
          THEN runs' = [runs EXCEPT ![r].pc = "sleep"]
          ELSE PairLookupEnds(r, "missing")
       \/ PairLookupEnds(r, "selector map unreadable")
    /\ overlap' = (overlap \/ Overlapping(runs'))
    /\ UNCHANGED frames
    /\ UNCHANGED outsidePair

\* await asyncio.sleep(retry_delay) returns: the next attempt
PairSleep(r) ==
    /\ runs[r].pc = "sleep"
    /\ runs' = [runs EXCEPT ![r].attempt = @ + 1, ![r].pc = "refresh"]
    /\ overlap' = (overlap \/ Overlapping(runs'))
    /\ UNCHANGED frames
    /\ UNCHANGED outsidePair

\* await event_bus.dispatch(event) on the call's own live session: it
\* returns (succeeded += 1; on_step_complete(step, True, None)) or raises
PairDispatch(r) ==
    /\ runs[r].pc = "dispatch"
    /\ LET a == session.actions[runs[r].idx]
           k == runs[r].idx
           sent == [op |-> "dispatch",
                    arg |-> BuildEvent(a, runs[r].node,
                                       runs[r].sensitive_data)]
       IN  \/ /\ runs' = [runs EXCEPT
                    ![r].outcomes[k].dispatch = "ok",
                    ![r].commands = @ \o <<sent,
                        [op |-> "on_step_complete",
                         arg |-> <<a.step_number, TRUE, None>>]>>,
                    ![r].pc = PairAfterAction(r, FALSE)]
              /\ frames' = [frames EXCEPT ![Frame(r)].succeeded = @ + 1]
           \/ /\ runs' = [runs EXCEPT
                    ![r].outcomes[k].dispatch = "fails",
                    ![r].commands = Append(@, sent),
                    ![r].exc = "dispatch failed",
                    ![r].pc = "except"]
              /\ UNCHANGED frames
    /\ overlap' = (overlap \/ Overlapping(runs'))
    /\ UNCHANGED outsidePair

\* except Exception as e: failed += 1; failed_steps.append(step);
\* errors.append(...); on_step_complete(step, False, str(e));
\* if stop_on_failure: break
PairHandleFailure(r) ==
    /\ runs[r].pc = "except"
    /\ LET a == session.actions[runs[r].idx] IN
       /\ frames' = [frames EXCEPT
             ![Frame(r)].failed = @ + 1,
             ![Frame(r)].failed_steps = Append(@, a.step_number),
             ![Frame(r)].errors =
                 Append(@, <<a.step_number, ActionTypeValue[a.action_type],
                             runs[r].exc>>)]
       /\ runs' = [runs EXCEPT
             ![r].commands = Append(@, [op |-> "on_step_complete",
                                        arg |-> <<a.step_number, FALSE,
                                                  runs[r].exc>>]),
             ![r].exc = None,
             ![r].pc = PairAfterAction(r, Breaks(runs[r].stop_on_failure))]
    /\ overlap' = (overlap \/ Overlapping(runs'))
    /\ UNCHANGED outsidePair

\* success = failed == 0; return ReplayResult(...)
PairReturn(r) ==
    /\ runs[r].pc = "return"
    /\ LET f == frames[Frame(r)] IN
       runs' = [runs EXCEPT
          ![r].result = [success |-> Success(f.failed, f.succeeded),
                         actions_total |-> Len(session.actions),
                         actions_succeeded |-> f.succeeded,
                         actions_failed |-> f.failed,
                         failed_steps |-> f.failed_steps,
                         errors |-> f.errors],
          ![r].pc = "done"]
    /\ UNCHANGED <<frames, overlap>>
    /\ UNCHANGED outsidePair

NextPair ==
    \E r \in Runs :
        \/ PairStart(r)
        \/ PairRefresh(r)
        \/ PairMatch(r)
        \/ PairSleep(r)
        \/ PairDispatch(r)
        \/ PairHandleFailure(r)
        \/ PairReturn(r)

SpecPair == InitPair /\ [][NextPair]_vars

----------------------------------------------------------------------------
(* Claims about interleaved replay calls *)

\* what one action does in a call that runs alone, given the answers of the
\* live session: the exception it ends with and the command it dispatches
Solo(a, answers, data) ==
    IF a.action_type \in ResolvingTypes /\ a.element = NoFingerprint
    THEN [error |-> "No element fingerprint provided", sent |-> <<>>]
    ELSE IF /\ a.action_type \in ResolvingTypes
            /\ answers.lookup \in Lookups \ {"found"}
    THEN [error |-> LookupError(answers.lookup), sent |-> <<>>]
    ELSE LET found == IF Resolves(a) /\ answers.lookup = "found"
                      THEN "node-17" ELSE None
         IN  [error |-> IF answers.dispatch = "fails"
                        THEN "dispatch failed" ELSE None,
              sent |-> <<[op |-> "dispatch",
                          arg |-> BuildEvent(a, found, data)]>>]

\* the calls and counters of a call that runs alone on the answers call r
\* got, from action k on
RECURSIVE AloneFrom(_, _, _)
AloneFrom(r, k, acc) ==
    IF k > Len(session.actions) \/ k > Len(runs[r].outcomes) \/ acc.stopped
    THEN acc
    ELSE LET a == session.actions[k]
             o == Solo(a, runs[r].outcomes[k], runs[r].sensitive_data)
             ok == o.error = None
         IN  AloneFrom(r, k + 1,
                [succeeded |-> acc.succeeded + (IF ok THEN 1 ELSE 0),
                 failed |-> acc.failed + (IF ok THEN 0 ELSE 1),
                 failed_steps |-> acc.failed_steps \o
                     (IF ok THEN <<>> ELSE <<a.step_number>>),
                 errors |-> acc.errors \o
                     (IF ok THEN <<>>
                      ELSE <<<<a.step_number,
                               ActionTypeValue[a.action_type], o.error>>>>),
                 commands |-> acc.commands
                     \o <<[op |-> "on_step_start", arg |-> a.step_number]>>
                     \o o.sent
                     \o <<[op |-> "on_step_complete",
                           arg |-> <<a.step_number, ok, o.error>>]>>,
                 stopped |-> ~ok /\ runs[r].stop_on_failure])

Alone(r) ==
    AloneFrom(r, 1, [succeeded |-> 0, failed |-> 0, failed_steps |-> <<>>,
                     errors |-> <<>>, commands |-> <<>>, stopped |-> FALSE])

\* C20: two replay() calls on the same RecordedSession that interleave
\* arbitrarily, each on its own live session, each return the ReplayResult
\* and dispatch the commands the call would produce if it ran alone.
C20_RunsAreIndependent ==
    \A r \in DOMAIN runs :
        runs[r].pc = "done" =>
            LET alone == Alone(r) IN
            /\ runs[r].commands = alone.commands
            /\ runs[r].result =
                  [success |-> alone.failed = 0,
                   actions_total |-> Len(session.actions),
                   actions_succeeded |-> alone.succeeded,
                   actions_failed |-> alone.failed,
                   failed_steps |-> alone.failed_steps,
                   errors |-> alone.errors]

\* both calls have returned after running side by side, one without a
\* failure and one whose first lookup ended with an exception of its live
\* session
C20_Witness ==
    /\ runs # <<>>
    /\ \A r \in Runs : runs[r].pc = "done"
    /\ overlap
    /\ Len(session.actions) = 2
    /\ runs[1].result.success
    /\ runs[1].result.actions_succeeded = 2
    /\ runs[2].result.failed_steps = <<1>>
    /\ runs[2].result.errors = <<<<1, "type", "engine unreachable">>>>
    /\ runs[2].result.actions_succeeded = 1

----------------------------------------------------------------------------
(* main.stream_replay: the SSE stream of a replay *)

\* the actions of the streamed sessions: one that is dispatched at once, a
\* click recorded without a fingerprint (it fails before any await) and a
\* click that resolves its element
StreamActions ==
    LET A(t) == RecordedAction(t, "t1") IN
    { [A("NAVIGATE") EXCEPT !.url = "http://a"],
      A("CLICK"),
      [A("CLICK") EXCEPT !.element = FpFull] }

\* event_generator is entered: the session is loaded, nothing has run yet
InitStream ==
    /\ \E actions \in SeqUpTo(StreamActions, MaxStreamed) :
          session = RecordedSession("s1", "0.11.2", Numbered(actions, 0))
    /\ stop_on_failure \in BOOLEAN
    /\ sensitive_data = SecretOf
    /\ callbacks = TRUE
    /\ pc = "idle"
    /\ idx = 0
    /\ attempt = 0
    /\ retry_delay = 0
    /\ node = None
    /\ exc = None
    /\ succeeded = 0
    /\ failed = 0
    /\ failed_steps = <<>>
    /\ errors = <<>>
    /\ result = NoResult
    /\ log = <<>>
    /\ trace = <<>>
    /\ raised = {}
    /\ gen = "create"
    /\ pumped = 0
    /\ queue = <<>>
    /\ sse = <<>>
    /\ keepalives = 0
    /\ PersistIdle
    /\ RecorderIdle
    /\ MatcherIdle
    /\ PairIdle

\* the replay task is suspended at an await of replay(), or it is over: the
\* event loop runs something else only then
LoopFree ==
    pc \in {"refresh", "match", "sleep", "dispatch", "discard", "finished",
           "cancelled"}

\* the callbacks replay() has made, in call order: each one has scheduled
\* progress_events.put_nowait(event) with loop.call_soon_threadsafe
Scheduled ==
    SelectSeq(log, LAMBDA e : e.op \in {"on_step_start", "on_step_complete"})

\* the dict a callback hands to put_nowait
ProgressEvent(e) ==
    IF e.op = "on_step_start"
    THEN [type |-> "step_start", step |-> e.arg,
          action_type |-> ActionTypeValue[session.actions[e.idx].action_type],
          total |-> Len(session.actions)]
    ELSE [type |-> "step_complete", step |-> e.arg[1], success |-> e.arg[2],
          error |-> e.arg[3]]

\* final_data of a ReplayResult
FinalData(r) ==
    [type |-> "complete", success |-> r.success,
     actions_total |-> r.actions_total,
     actions_succeeded |-> r.actions_succeeded,
     actions_failed |-> r.actions_failed,
     failed_steps |-> r.failed_steps, errors |-> r.errors]

\* BrowserFactory.create returns no browser: one error event, then return
CreateFails ==
    /\ gen = "create"
    /\ sse' = Append(sse, [type |-> "error",
                           message |-> "Could not create browser for replay"])
    /\ gen' = "returned"
    /\ UNCHANGED <<pumped, queue, keepalives>>
    /\ UNCHANGED <<persistVars, replayVars>>
    /\ UNCHANGED <<recorderVars, matcherVars, pairVars>>

\* await browser_session.start() raises (strategy browser_class): the call
\* is made before the try block, so the exception leaves the generator: no
\* event is yielded, no task is created, BrowserFactory.cleanup is not called
StartRaises ==
    /\ gen = "create"
    /\ gen' = "aborted"
    /\ UNCHANGED <<pumped, queue, sse, keepalives>>
    /\ UNCHANGED <<persistVars, replayVars>>
    /\ UNCHANGED <<recorderVars, matcherVars, pairVars>>

\* the browser exists and browser_session.start(), where it is called, has
\* returned: task = asyncio.create_task(run_replay_task()); yield the
\* started event; the task enters replay() once the generator awaits the
\* queue
CreateTask ==
    /\ gen = "create"
    /\ gen' = "stream"
    /\ sse' = Append(sse, [type |-> "started",
                           total_actions |-> Len(session.actions)])
    /\ pc' = IF Len(session.actions) = 0 THEN "return" ELSE "start"
    /\ UNCHANGED <<pumped, queue, keepalives>>
    /\ UNCHANGED <<idx, attempt, retry_delay, node, exc, raised, log, trace>>
    /\ UNCHANGED <<succeeded, failed, failed_steps, errors, result>>
    /\ UNCHANGED <<stop_on_failure, sensitive_data, callbacks>>
    /\ UNCHANGED persistVars
    /\ UNCHANGED <<recorderVars, matcherVars, pairVars>>

\* replay() has returned: await progress_events.put({"type": "complete",
\* "result": result}); the queue is unbounded, so put() does not suspend and
\* the item is in the queue before the loop runs anything else
PutComplete ==
    /\ pc = "done"
    /\ queue' = Append(queue, [type |-> "complete", result |-> result])
    /\ pc' = "finished"
    /\ UNCHANGED <<gen, pumped, sse, keepalives>>
    /\ UNCHANGED <<idx, attempt, retry_delay, node, exc, raised, log, trace>>
    /\ UNCHANGED <<succeeded, failed, failed_steps, errors, result>>
    /\ UNCHANGED <<stop_on_failure, sensitive_data, callbacks>>
    /\ UNCHANGED persistVars
    /\ UNCHANGED <<recorderVars, matcherVars, pairVars>>

\* the event loop runs the oldest scheduled put_nowait
Pump ==
    /\ LoopFree
    /\ pumped < Len(Scheduled)
    /\ queue' = Append(queue, ProgressEvent(Scheduled[pumped + 1]))
    /\ pumped' = pumped + 1
    /\ UNCHANGED <<gen, sse, keepalives>>
    /\ UNCHANGED <<persistVars, replayVars>>
    /\ UNCHANGED <<recorderVars, matcherVars, pairVars>>

\* event = await asyncio.wait_for(progress_events.get(), timeout=60.0)
\* returns: a progress event is yielded as it is; the complete item is
\* yielded as final_data, and the generator stays suspended at that yield
\* with the browser still open
Emit ==
    /\ gen = "stream"
    /\ LoopFree
    /\ queue # <<>>
    /\ queue' = Tail(queue)
    /\ IF Head(queue).type = "complete"
       THEN /\ sse' = Append(sse, FinalData(Head(queue).result))
            /\ gen' = "complete sent"
       ELSE /\ sse' = Append(sse, Head(queue))
            /\ gen' = gen
    /\ UNCHANGED <<pumped, keepalives>>
    /\ UNCHANGED <<persistVars, replayVars>>
    /\ UNCHANGED <<recorderVars, matcherVars, pairVars>>

\* the consumer asks for the next chunk (or closes the generator): break,
\* then finally: BrowserFactory.cleanup(browser_result) is called and awaited
LeaveLoop ==
    /\ gen = "complete sent"
    /\ gen' = "cleanup"
    /\ UNCHANGED <<pumped, queue, sse, keepalives>>
    /\ UNCHANGED <<persistVars, replayVars>>
    /\ UNCHANGED <<recorderVars, matcherVars, pairVars>>

\* await BrowserFactory.cleanup(browser_result) returns: the generator ends
CleanupReturns ==
    /\ gen = "cleanup"
    /\ gen' = "closed"
    /\ UNCHANGED <<pumped, queue, sse, keepalives>>
    /\ UNCHANGED <<persistVars, replayVars>>
    /\ UNCHANGED <<recorderVars, matcherVars, pairVars>>

\* asyncio.wait_for(progress_events.get(), timeout=60.0) raises
\* asyncio.TimeoutError: nothing was put for 60 seconds
Timeout ==
    /\ gen = "stream"
    /\ LoopFree
    /\ queue = <<>>
    /\ pumped = Len(Scheduled)
    /\ gen' = "timeout"
    /\ UNCHANGED <<pumped, queue, sse, keepalives>>
    /\ UNCHANGED <<persistVars, replayVars>>
    /\ UNCHANGED <<recorderVars, matcherVars, pairVars>>

\* except asyncio.TimeoutError: a keepalive event is yielded and the queue
\* is awaited again; the events are counted up to MaxKeepalives
Keepalive ==
    /\ gen = "timeout"
    /\ keepalives' = IF keepalives < MaxKeepalives THEN keepalives + 1
                     ELSE keepalives
    /\ gen' = "stream"
    /\ UNCHANGED <<pumped, queue, sse>>
    /\ UNCHANGED <<persistVars, replayVars>>
    /\ UNCHANGED <<recorderVars, matcherVars, pairVars>>

\* the generator, the replay task (which a CancelledError raised at an await
\* ends with an exception) and the event loop
NextStream ==
    \/ CreateFails
    \/ StartRaises
    \/ CreateTask
    \/ NextReplay
    \/ Cancel
    \/ DiscardEnds
    \/ PutComplete
    \/ Pump
    \/ Emit
    \/ LeaveLoop
    \/ CleanupReturns
    \/ Timeout
    \/ Keepalive

SpecStream == InitStream /\ [][NextStream]_vars

\* the event loop runs what is ready, awaited calls end, timeouts fire, the
\* consumer asks for the next chunk
SpecStreamFair == InitStream /\ [][NextStream]_vars /\ WF_vars(NextStream)

----------------------------------------------------------------------------
(* Claims about the stream *)

\* the stream has ended with a complete or an error event, the browser (if
\* one was created) cleaned up
StreamEnded ==
    /\ gen \in {"closed", "returned"}
    /\ sse # <<>>
    /\ sse[Len(sse)].type \in {"complete", "error"}

\* C36: in the streaming replay endpoint, every step_start and step_complete
\* event produced by the replayer's callbacks for an attempted action is put
\* on the stream before the final complete event; no progress event of the
\* last action is lost because the complete event overtakes it in the queue.
C36_ProgressBeforeComplete ==
    (sse # <<>> /\ sse[Len(sse)].type = "complete") =>
        \A k \in DOMAIN Scheduled :
            \E p \in 1..(Len(sse) - 1) : sse[p] = ProgressEvent(Scheduled[k])

\* C37: the streaming replay endpoint's event stream always ends: it
\* eventually emits a complete or an error event and then cleans up the
\* browser; if the background replay task ends with an exception, the stream
\* reports it instead of emitting keepalive events forever.
C37_StreamEnds ==
    /\ <>StreamEnded
    /\ (pc = "cancelled") ~> StreamEnded

====
